---- MODULE Spec2Model ----
(***************************************************************************)
(* Model of RegexConverter (convert_regex.py): string_to_regex, the        *)
(* single-pass scanner that turns an example string into a regular         *)
(* expression, and compile_pattern, which hands the result to re.compile.  *)
(*                                                                         *)
(* A Python str is modelled as a sequence of characters; a character is a  *)
(* TLA+ string.  The two non-ASCII characters of the model alphabet are    *)
(* written by their code point: "u00E9" is e-acute (str.isalpha() is True, *)
(* not in a-zA-Z) and "u00B2" is superscript two (str.isdigit() is True,   *)
(* not a decimal digit).  Python indexes from 0, TLA+ from 1: s[k] of the  *)
(* source is CharAt(s, k) here.                                            *)
(***************************************************************************)
EXTENDS Integers, Sequences, FiniteSets, TLC

\* ------------------------------------------------------------------ bounds

\* longest input drawn from CoreChars
MaxLen == 4
\* longest input drawn from the full alphabet AllChars
ShortLen == 2
\* longest single-class run of the long-run inputs (reaches two-digit counts)
MaxRun == 11

\* -------------------------------------------------------------- characters

QUOTE == "\""
BACKSLASH == "\\"

\* the special characters with the backslash left out
RawSpecialCharsNoBackslash ==
    << ".", "^", "$", "*", "+", "?", "(", ")", "[", "]", "{", "}", "|" >>

\* the characters of r".^$*+?()[]{}|\\" in order (a raw string: the backslash
\* occurs twice)
RawSpecialChars ==
    << ".", "^", "$", "*", "+", "?", "(", ")", "[", "]", "{", "}", "|",
       BACKSLASH, BACKSLASH >>

AsciiLetters == {"a", "s", "d", "z", "A", "Z"}
AsciiDigits == {"0", "1", "2", "3", "4", "5", "6", "7", "8", "9"}

\* str.isspace(), str.isalpha(), str.isdigit() on the model alphabet
isspace(c) == c \in {" ", "\n"}
isalpha(c) == c \in AsciiLetters \cup {"u00E9"}
isdigit(c) == c \in AsciiDigits \cup {"u00B2"}

CoreChars == {"a", "1", " ", QUOTE, ".", "-"}
AllChars ==
    {".", "^", "$", "*", "+", "?", "(", ")", "[", "]", "{", "}", "|", BACKSLASH,
     "a", "s", "d", "u00E9", "1", "u00B2", " ", "\n", QUOTE, "-"}

\* ------------------------------------------------------------ str helpers

CharAt(s, k) == s[k + 1]

\* c in chars, for a one-character c
CharIn(c, chars) == \E k \in 1..Len(chars) : chars[k] = c

RECURSIVE Join(_)
\* "".join(parts)
Join(parts) ==
    IF parts = << >> THEN << >> ELSE Head(parts) \o Join(Tail(parts))

DigitChar(n) == CharAt(<< "0", "1", "2", "3", "4", "5", "6", "7", "8", "9" >>, n)

RECURSIVE IntStr(_)
\* the decimal text an f-string gives a non-negative int
IntStr(n) ==
    IF n < 10 THEN << DigitChar(n) >>
    ELSE IntStr(n \div 10) \o << DigitChar(n % 10) >>

RECURSIVE EscapeJoin(_, _)
\* "".join([f"\\{c}" if c in special else c for c in text])
EscapeJoin(text, special) ==
    IF text = << >> THEN << >>
    ELSE (IF CharIn(Head(text), special)
              THEN << BACKSLASH, Head(text) >>
              ELSE << Head(text) >>)
         \o EscapeJoin(Tail(text), special)

\* ------------------------------------------------- generic-mode scanning

RECURSIVE space_count(_, _, _)
\* the inner while loop counting consecutive whitespace from index j
space_count(s, j, n) ==
    IF j < Len(s) /\ isspace(CharAt(s, j)) THEN space_count(s, j + 1, n + 1)
    ELSE n

RECURSIVE letter_count_alnum(_, _, _)
\* the letter loop testing for letters or digits
letter_count_alnum(s, j, n) ==
    IF j < Len(s) /\ (isalpha(CharAt(s, j)) \/ isdigit(CharAt(s, j)))
        THEN letter_count_alnum(s, j + 1, n + 1)
    ELSE n

RECURSIVE letter_count(_, _, _)
\* the inner while loop counting consecutive letters from index j
letter_count(s, j, n) ==
    IF j < Len(s) /\ isalpha(CharAt(s, j)) THEN letter_count(s, j + 1, n + 1)
    ELSE n

RECURSIVE digit_count(_, _, _)
\* the inner while loop counting consecutive digits from index j
digit_count(s, j, n) ==
    IF j < Len(s) /\ isdigit(CharAt(s, j)) THEN digit_count(s, j + 1, n + 1)
    ELSE n

\* f"\\s{{{space_count}}}" or "\\s"
SpaceToken(n) ==
    IF n > 1 THEN << BACKSLASH, "s", "{" >> \o IntStr(n) \o << "}" >>
    ELSE << BACKSLASH, "s" >>

\* f"[a-zA-Z]{{{letter_count}}}" or "[a-zA-Z]"
LetterToken(n) ==
    IF n > 1
        THEN << "[", "a", "-", "z", "A", "-", "Z", "]", "{" >> \o IntStr(n) \o << "}" >>
        ELSE << "[", "a", "-", "z", "A", "-", "Z", "]" >>

\* the digit token with the count's braces not doubled in the f-string:
\* the text {digit_count} instead of the number
DigitTokenLiteralBraces(n) ==
    IF n > 1
        THEN << BACKSLASH, "d", "{", "d", "i", "g", "i", "t", "_", "c", "o", "u", "n",
                "t", "}" >>
        ELSE << BACKSLASH, "d" >>

\* f"\\d{{{digit_count}}}" or "\\d"
DigitToken(n) ==
    IF n > 1 THEN << BACKSLASH, "d", "{" >> \o IntStr(n) \o << "}" >>
    ELSE << BACKSLASH, "d" >>

\* The locals of the generic branch as a record: the cursor i, in_quotes,
\* quote_buffer and parts.
InitLocals ==
    [i |-> 0, in_quotes |-> FALSE, quote_buffer |-> << >>, parts |-> << >>]

\* closing a quote without escaping the buffer
CloseQuoteUnescaped(st, special) ==
    [i |-> st.i + 1, in_quotes |-> FALSE, quote_buffer |-> << >>,
     parts |-> Append(st.parts, st.quote_buffer)]

\* char == '"' while in_quotes: flush the buffer, leave the quote
CloseQuote(st, special) ==
    [i |-> st.i + 1, in_quotes |-> FALSE, quote_buffer |-> << >>,
     parts |-> Append(st.parts, EscapeJoin(st.quote_buffer, special))]

\* opening a quote without moving the cursor
OpenQuoteNoAdvance(st) == [st EXCEPT !.in_quotes = TRUE]

\* char == '"' while not in_quotes
OpenQuote(st) == [st EXCEPT !.i = st.i + 1, !.in_quotes = TRUE]

\* any other char while in_quotes
CollectQuoted(st, char) ==
    [st EXCEPT !.i = st.i + 1, !.quote_buffer = Append(st.quote_buffer, char)]

\* if char.isspace(): one token for the run, i += space_count
SpaceBranch(s, st) ==
    LET n == space_count(s, st.i + 1, 1)
    IN  [st EXCEPT !.i = st.i + n, !.parts = Append(st.parts, SpaceToken(n))]

\* elif char.isalpha(): one token for the run, i += letter_count or 1
LetterBranch(s, st) ==
    LET n == letter_count(s, st.i + 1, 1)
    IN  [st EXCEPT !.i = st.i + (IF n > 1 THEN n ELSE 1),
                   !.parts = Append(st.parts, LetterToken(n))]

\* elif char.isdigit(): one token for the run, i += digit_count or 1
DigitBranch(s, st) ==
    LET n == digit_count(s, st.i + 1, 1)
    IN  [st EXCEPT !.i = st.i + (IF n > 1 THEN n ELSE 1),
                   !.parts = Append(st.parts, DigitToken(n))]

\* the else branch copying every character unescaped
OtherBranchUnescaped(st, char, special) ==
    [st EXCEPT !.i = st.i + 1, !.parts = Append(st.parts, << char >>)]

\* else: escape the character if it is special, copy it otherwise
OtherBranch(st, char, special) ==
    [st EXCEPT !.i = st.i + 1,
               !.parts = Append(st.parts,
                                IF CharIn(char, special)
                                    THEN << BACKSLASH, char >>
                                    ELSE << char >>)]

\* which branch of the loop body the character at the cursor takes
Branch(s, st) ==
    LET char == CharAt(s, st.i)
    IN  IF char = QUOTE THEN (IF st.in_quotes THEN "close" ELSE "open")
        ELSE IF st.in_quotes THEN "collect"
        ELSE IF isspace(char) THEN "space"
        ELSE IF isalpha(char) THEN "letter"
        ELSE IF isdigit(char) THEN "digit"
        ELSE "other"

\* one iteration of `while i < len(input_string)`
LoopBody(s, st, special) ==
    LET char == CharAt(s, st.i)
        b == Branch(s, st)
    IN  CASE b = "close" -> CloseQuote(st, special)
          [] b = "open" -> OpenQuote(st)
          [] b = "collect" -> CollectQuoted(st, char)
          [] b = "space" -> SpaceBranch(s, st)
          [] b = "letter" -> LetterBranch(s, st)
          [] b = "digit" -> DigitBranch(s, st)
          [] OTHER -> OtherBranch(st, char, special)

\* the parts with an unterminated quote's buffer dropped
FlushPartsDropsBuffer(st, special) == st.parts

\* after the loop: if quote_buffer: parts.append(escaped)
FlushParts(st, special) ==
    IF st.quote_buffer # << >>
        THEN Append(st.parts, EscapeJoin(st.quote_buffer, special))
        ELSE st.parts

\* anchoring that forgets the end anchor
AnchoredPrefixOnly(res, full) == IF full THEN << "^" >> \o res ELSE res

\* anchoring that skips an empty pattern
AnchoredNonEmptyOnly(res, full) ==
    IF full /\ res # << >> THEN << "^" >> \o res \o << "$" >> ELSE res

\* if full_match: result = f"^{result}$"
Anchored(res, full) == IF full THEN << "^" >> \o res \o << "$" >> ELSE res

RECURSIVE ScanLoop(_, _, _)
\* the whole while loop, from the locals st on
ScanLoop(s, st, special) ==
    IF st.i < Len(s) THEN ScanLoop(s, LoopBody(s, st, special), special) ELSE st

\* string_to_regex as a function of its arguments and the converter's attribute
string_to_regex(special, s, generic, full) ==
    Anchored(IF ~generic THEN EscapeJoin(s, special)
             ELSE Join(FlushParts(ScanLoop(s, InitLocals, special), special)),
             full)

\* ------------------------------------------------ re.compile, re.search

(***************************************************************************)
(* The fragment of Python's re that string_to_regex can emit: literal      *)
(* characters, backslash escapes of non-alphanumerics, \s, \d, the class   *)
(* [a-zA-Z], the counted repeat {n}, "." and the anchors ^ and $.  A       *)
(* compiled pattern is a sequence of items [kind, ch, count, counted].     *)
(* Patterns outside the fragment (groups, alternation, * + ?, other        *)
(* classes, other letter escapes) are rejected: CompileError.              *)
(***************************************************************************)
\* what re.compile raising re.error is modelled as: one item no subject matches
CompileError == << [kind |-> "error", ch |-> "", count |-> 0, counted |-> FALSE] >>

\* regex.search returning None
NoMatch == [start |-> -1, end |-> -1]

Item(kind, ch) == [kind |-> kind, ch |-> ch, count |-> 1, counted |-> FALSE]

\* the 1-based position of the "}" closing a run of digits that starts at
\* k, or 0 when p[k..] does not start with digits followed by "}"
RECURSIVE CountEnd(_, _, _)
CountEnd(p, k, seen) ==
    IF k > Len(p) THEN 0
    ELSE IF p[k] \in AsciiDigits THEN CountEnd(p, k + 1, TRUE)
    ELSE IF p[k] = "}" /\ seen THEN k
    ELSE 0

DigitValue(c) == CHOOSE n \in 0..9 : DigitChar(n) = c

RECURSIVE IntValue(_)
\* int(digits)
IntValue(digits) ==
    IF digits = << >> THEN 0
    ELSE 10 * IntValue(SubSeq(digits, 1, Len(digits) - 1))
             + DigitValue(digits[Len(digits)])

RECURSIVE ParsePattern(_, _, _)
\* the parse of p from 1-based position k on, items being parsed so far
ParsePattern(p, k, items) ==
    IF k > Len(p) THEN items
    ELSE LET c == p[k] IN
    CASE c = BACKSLASH ->
            IF k = Len(p) THEN CompileError
            ELSE IF p[k + 1] = "s"
                THEN ParsePattern(p, k + 2, Append(items, Item("space", "")))
            ELSE IF p[k + 1] = "d"
                THEN ParsePattern(p, k + 2, Append(items, Item("digit", "")))
            ELSE IF p[k + 1] \in AsciiLetters \cup AsciiDigits THEN CompileError
            ELSE ParsePattern(p, k + 2, Append(items, Item("lit", p[k + 1])))
      [] c = "[" ->
            IF k + 7 <= Len(p)
                   /\ SubSeq(p, k, k + 7) = << "[", "a", "-", "z", "A", "-", "Z", "]" >>
                THEN ParsePattern(p, k + 8, Append(items, Item("alpha", "")))
                ELSE CompileError
      [] c = "{" ->
            LET e == CountEnd(p, k + 1, FALSE) IN
            IF e = 0 THEN ParsePattern(p, k + 1, Append(items, Item("lit", c)))
            ELSE IF items = << >> \/ items[Len(items)].kind \in {"bol", "eol"}
                     \/ items[Len(items)].counted
                THEN CompileError
            ELSE ParsePattern(p, e + 1,
                     [items EXCEPT ![Len(items)].count = IntValue(SubSeq(p, k + 1, e - 1)),
                                   ![Len(items)].counted = TRUE])
      [] c = "^" -> ParsePattern(p, k + 1, Append(items, Item("bol", "")))
      [] c = "$" -> ParsePattern(p, k + 1, Append(items, Item("eol", "")))
      [] c = "." -> ParsePattern(p, k + 1, Append(items, Item("any", "")))
      [] c \in {"*", "+", "?", "(", ")", "|"} -> CompileError
      [] OTHER -> ParsePattern(p, k + 1, Append(items, Item("lit", c)))

\* re.compile(pattern): the items, or CompileError
re_compile(pattern) == ParsePattern(pattern, 1, << >>)

\* one subject character against a one-character item
ItemAccepts(item, c) ==
    CASE item.kind = "lit" -> c = item.ch
      [] item.kind = "space" -> isspace(c)
      [] item.kind = "digit" -> c \in AsciiDigits
      [] item.kind = "alpha" -> c \in AsciiLetters
      [] item.kind = "any" -> c # "\n"
      [] OTHER -> FALSE

RECURSIVE MatchItems(_, _, _, _)
\* the 0-based end of the match of items[idx..] at 0-based pos, or -1
MatchItems(items, idx, subject, pos) ==
    IF idx > Len(items) THEN pos
    ELSE LET item == items[idx] IN
    CASE item.kind = "bol" ->
            IF pos = 0 THEN MatchItems(items, idx + 1, subject, pos) ELSE -1
      [] item.kind = "eol" ->
            IF pos = Len(subject)
                   \/ (pos = Len(subject) - 1 /\ subject[Len(subject)] = "\n")
                THEN MatchItems(items, idx + 1, subject, pos)
                ELSE -1
      [] item.kind = "error" -> -1
      [] OTHER ->
            IF pos + item.count <= Len(subject)
                   /\ \A m \in (pos + 1)..(pos + item.count) :
                          ItemAccepts(item, subject[m])
                THEN MatchItems(items, idx + 1, subject, pos + item.count)
                ELSE -1

\* regex.search(subject): the span of the leftmost match, or NoMatch
re_search(items, subject) ==
    LET starts == {k \in 0..Len(subject) : MatchItems(items, 1, subject, k) # -1}
    IN  IF starts = {} THEN NoMatch
        ELSE LET k == CHOOSE a \in starts : \A b \in starts : a <= b
             IN  [start |-> k, end |-> MatchItems(items, 1, subject, k)]

\* ------------------------------------------------------------------ state

VARIABLES
    regex_special_chars,    \* self.regex_special_chars
    input_string,           \* the arguments of the call in progress
    generic_matching,
    full_match,
    i,                      \* the locals of the generic branch
    in_quotes,
    quote_buffer,
    parts,
    result,
    pc,                     \* "entry", "loop", "anchor", "done"; "idle": no such call
    frames,                 \* the frames of several calls on one converter
    cli_pc,                 \* main() of convert_regex.py: its position,
    cli_input,              \*   input_string
    regex_pattern,          \*   regex_pattern
    test_strings,           \*   test_strings
    stdout,                 \*   the lines printed under "Test Results:"
    exit_code,              \*   the exit code of the process
    ex_pc,                  \* PDFExtractor.extract_from_pdf: its position,
    pdf_exists,             \*   os.path.exists(pdf_path)
    all_matches,            \*   all_matches
    patterns,               \*   self.patterns, in dict order
    gst_company_mappings,   \*   self.gst_company_mappings
    ex_result,              \*   result
    field_idx,              \*   the position of the two for loops
    pattern_idx,
    mappings,               \* GSTMappingDialog: self.mappings, in dict order,
    settings_mappings,      \*   the value stored under "gst_company_mappings"
    gst_edit,               \*   the text of self.gst_edit
    company_name_edit,      \*   the text of self.company_name_edit
    gst_op,                 \*   the handler that ran last
    pattern_categories,     \* RegexManagerDialog: self.pattern_categories, in dict order,
    settings_patterns,      \*   the value stored under "regex_patterns"
    category_combo,         \*   the current text of self.category_combo
    patterns_row,           \*   the current row of self.patterns_list
    regex_edit,             \*   the text of self.regex_edit
    plain_text_edit,        \*   the text of self.plain_text_edit
    generic_matching_cb,    \*   self.generic_matching_cb.isChecked()
    full_match_cb,          \*   self.full_match_cb.isChecked()
    rx_ops,                 \*   the handlers that changed the patterns so far
    disk,                   \* the files and directories on the disk: [path, content]
    pdf_list,               \* the source paths listed in the main window
    settings_conflict_mode, \* settings["conflict_mode"]
    workers,                \* the OrganizeWorker threads started, with their locals
    copy_log,               \* the shutil.copy calls that returned, in order
    source_items,           \* the rows of the QFileSystemModel: [path, is_dir]
    current_directory,      \* self.current_directory
    history,                \* self.history
    back_btn,               \* self.back_btn.isEnabled()
    root_path,              \* proxy_model.root_path
    filter_pattern,         \* proxy_model.filterRegExp().pattern()
    accepted,               \* the paths filterAcceptsRow accepts
    nav_op,                 \* the handler that ran last
    inv_pc,                 \* where the call of process_invoice is
    inv_data,               \* the argument data
    source_pdf,             \* the argument source_pdf
    dest_pdf,               \* the local dest_pdf
    inv_result,             \* the pair returned
    disk_before             \* the disk when process_invoice was called

\* the state of one stepped call of string_to_regex
convVars ==
    << regex_special_chars, input_string, generic_matching, full_match,
       i, in_quotes, quote_buffer, parts, result, pc >>

\* the locals of main()
cliVars == << cli_pc, cli_input, regex_pattern, test_strings, stdout, exit_code >>

\* the state of PDFExtractor and of a call of extract_from_pdf
exVars ==
    << ex_pc, pdf_exists, all_matches, patterns, gst_company_mappings, ex_result,
       field_idx, pattern_idx >>

\* the state of GSTMappingDialog and of its settings store
gstVars == << mappings, settings_mappings, gst_edit, company_name_edit, gst_op >>

\* the state of RegexManagerDialog and of its settings store
rxVars ==
    << pattern_categories, settings_patterns, category_combo, patterns_row,
       regex_edit, plain_text_edit, generic_matching_cb, full_match_cb, rx_ops >>

\* the main window's PDF list and conflict setting, its workers and the disk
orgVars == << disk, pdf_list, settings_conflict_mode, workers, copy_log >>

\* the main window's directory view: the file system model, the proxy model, the history
dirVars ==
    << source_items, current_directory, history, back_btn, root_path,
       filter_pattern, accepted, nav_op >>

\* one call of InvoiceManager.process_invoice
invVars == << inv_pc, inv_data, source_pdf, dest_pdf, inv_result, disk_before >>

\* the state of the dialogs, the main window, its worker and the files
restVars == << gstVars, rxVars, orgVars, dirVars, invVars >>

\* what a stepped call of string_to_regex never touches
otherVars == << frames, cliVars, exVars, restVars >>

\* the state of the converter, its command line and the extractor
baseVars == << convVars, frames, cliVars, exVars >>

vars == << baseVars, restVars >>

args == << regex_special_chars, input_string, generic_matching, full_match >>

Locals ==
    [i |-> i, in_quotes |-> in_quotes, quote_buffer |-> quote_buffer,
     parts |-> parts]

SetLocals(st) ==
    /\ i' = st.i
    /\ in_quotes' = st.in_quotes
    /\ quote_buffer' = st.quote_buffer
    /\ parts' = st.parts

RECURSIVE StringsUpTo(_, _)
\* every string over chars of length at most n
StringsUpTo(chars, n) ==
    IF n = 0 THEN {<< >>}
    ELSE LET shorter == StringsUpTo(chars, n - 1)
         IN  shorter \cup {Append(t, c) : t \in shorter, c \in chars}

Repeat(c, n) == [k \in 1..n |-> c]

\* a run of one class followed by at most one further character
LongRuns ==
    {Repeat(c, n) \o tail :
        c \in {"a", "1", " "}, n \in 5..MaxRun,
        tail \in {<< >>, << QUOTE >>, << "." >>, << "a" >>, << "1" >>}}

Inputs ==
    StringsUpTo(CoreChars, MaxLen) \cup StringsUpTo(AllChars, ShortLen)
        \cup LongRuns

\* no stepped call of string_to_regex is in progress
ConvIdle ==
    /\ input_string = << >>
    /\ generic_matching = TRUE
    /\ full_match = FALSE
    /\ i = InitLocals.i
    /\ in_quotes = InitLocals.in_quotes
    /\ quote_buffer = InitLocals.quote_buffer
    /\ parts = InitLocals.parts
    /\ result = << >>
    /\ pc = "idle"

\* no concurrent calls are in progress
NoFrames == frames = << >>

\* main() is not running
CliIdle ==
    /\ cli_pc = "idle"
    /\ cli_input = << >>
    /\ regex_pattern = << >>
    /\ test_strings = << >>
    /\ stdout = << >>
    /\ exit_code = 0

\* extract_from_pdf is not running
ExIdle ==
    /\ ex_pc = "idle"
    /\ pdf_exists = FALSE
    /\ all_matches = FALSE
    /\ patterns = << >>
    /\ gst_company_mappings = << >>
    /\ ex_result = << >>
    /\ field_idx = 0
    /\ pattern_idx = 0

\* no GSTMappingDialog is open
GstIdle ==
    /\ mappings = << >>
    /\ settings_mappings = << >>
    /\ gst_edit = << >>
    /\ company_name_edit = << >>
    /\ gst_op = "idle"

\* no RegexManagerDialog is open
RxIdle ==
    /\ pattern_categories = << >>
    /\ settings_patterns = << >>
    /\ category_combo = ""
    /\ patterns_row = -1
    /\ regex_edit = << >>
    /\ plain_text_edit = << >>
    /\ generic_matching_cb = TRUE
    /\ full_match_cb = FALSE
    /\ rx_ops = 0

\* no PDF is listed, no worker was started and the disk is not looked at
OrgIdle ==
    /\ disk = {}
    /\ pdf_list = << >>
    /\ settings_conflict_mode = "Prompt"
    /\ workers = << >>
    /\ copy_log = << >>

\* the directory view is not in use
DirIdle ==
    /\ source_items = {}
    /\ current_directory = << >>
    /\ history = << >>
    /\ back_btn = FALSE
    /\ root_path = << >>
    /\ filter_pattern = << >>
    /\ accepted = {}
    /\ nav_op = "idle"

\* process_invoice is not being called
InvIdle ==
    /\ inv_pc = "idle"
    /\ inv_data = << >>
    /\ source_pdf = [folder |-> "", filename |-> << >>]
    /\ dest_pdf = [folder |-> "", filename |-> << >>]
    /\ inv_result = << >>
    /\ disk_before = {}

\* neither a dialog nor the main window is in use
RestIdle ==
    /\ GstIdle
    /\ RxIdle
    /\ OrgIdle
    /\ DirIdle
    /\ InvIdle

\* only the part named g is in use: the rest of the program is not
IdleBut(g) ==
    /\ regex_special_chars = RawSpecialChars
    /\ ConvIdle
    /\ NoFrames
    /\ CliIdle
    /\ ExIdle
    /\ IF g = "gst" THEN TRUE ELSE GstIdle
    /\ IF g = "rx" THEN TRUE ELSE RxIdle
    /\ IF g = "org" THEN TRUE ELSE OrgIdle
    /\ IF g = "dir" THEN TRUE ELSE DirIdle
    /\ IF g = "inv" THEN TRUE ELSE InvIdle

\* a step of the part named g leaves the rest of the program alone
UnchangedBut(g) ==
    /\ UNCHANGED baseVars
    /\ IF g = "gst" THEN TRUE ELSE UNCHANGED gstVars
    /\ IF g = "rx" THEN TRUE ELSE UNCHANGED rxVars
    /\ IF g = "org" THEN TRUE ELSE UNCHANGED orgVars
    /\ IF g = "dir" THEN TRUE ELSE UNCHANGED dirVars
    /\ IF g = "inv" THEN TRUE ELSE UNCHANGED invVars

\* RegexConverter() followed by a call of string_to_regex with any arguments
Init ==
    /\ regex_special_chars = RawSpecialChars
    /\ input_string \in Inputs
    /\ generic_matching \in BOOLEAN
    /\ full_match \in BOOLEAN
    /\ i = InitLocals.i
    /\ in_quotes = InitLocals.in_quotes
    /\ quote_buffer = InitLocals.quote_buffer
    /\ parts = InitLocals.parts
    /\ result = << >>
    /\ pc = "entry"
    /\ NoFrames
    /\ CliIdle
    /\ ExIdle
    /\ RestIdle

\* ---------------------------------------------------------------- actions

\* if not generic_matching: the literal conversion
LiteralConvert ==
    /\ pc = "entry"
    /\ ~generic_matching
    /\ result' = EscapeJoin(input_string, regex_special_chars)
    /\ pc' = "anchor"
    /\ UNCHANGED << args, i, in_quotes, quote_buffer, parts >>
    /\ UNCHANGED otherVars

\* else: parts = [], i = 0, in_quotes = False, quote_buffer = ""
EnterGeneric ==
    /\ pc = "entry"
    /\ generic_matching
    /\ SetLocals(InitLocals)
    /\ pc' = "loop"
    /\ UNCHANGED << args, result >>
    /\ UNCHANGED otherVars

\* the loop condition holds and the character at the cursor takes branch b
AtBranch(b) ==
    /\ pc = "loop"
    /\ i < Len(input_string)
    /\ Branch(input_string, Locals) = b

\* if char == '"' and in_quotes
QuoteClose ==
    /\ AtBranch("close")
    /\ SetLocals(CloseQuote(Locals, regex_special_chars))
    /\ UNCHANGED << args, result, pc >>
    /\ UNCHANGED otherVars

\* if char == '"' and not in_quotes
QuoteOpen ==
    /\ AtBranch("open")
    /\ SetLocals(OpenQuote(Locals))
    /\ UNCHANGED << args, result, pc >>
    /\ UNCHANGED otherVars

\* if in_quotes: quote_buffer += char
QuoteCollect ==
    /\ AtBranch("collect")
    /\ SetLocals(CollectQuoted(Locals, CharAt(input_string, i)))
    /\ UNCHANGED << args, result, pc >>
    /\ UNCHANGED otherVars

\* if char.isspace()
SpaceRun ==
    /\ AtBranch("space")
    /\ SetLocals(SpaceBranch(input_string, Locals))
    /\ UNCHANGED << args, result, pc >>
    /\ UNCHANGED otherVars

\* elif char.isalpha()
LetterRun ==
    /\ AtBranch("letter")
    /\ SetLocals(LetterBranch(input_string, Locals))
    /\ UNCHANGED << args, result, pc >>
    /\ UNCHANGED otherVars

\* elif char.isdigit()
DigitRun ==
    /\ AtBranch("digit")
    /\ SetLocals(DigitBranch(input_string, Locals))
    /\ UNCHANGED << args, result, pc >>
    /\ UNCHANGED otherVars

\* else: escape or copy the one character
OtherChar ==
    /\ AtBranch("other")
    /\ SetLocals(OtherBranch(Locals, CharAt(input_string, i), regex_special_chars))
    /\ UNCHANGED << args, result, pc >>
    /\ UNCHANGED otherVars

\* the loop condition fails: flush the quote buffer and join the parts
LoopExit ==
    /\ pc = "loop"
    /\ ~(i < Len(input_string))
    /\ parts' = FlushParts(Locals, regex_special_chars)
    /\ result' = Join(parts')
    /\ pc' = "anchor"
    /\ UNCHANGED << args, i, in_quotes, quote_buffer >>
    /\ UNCHANGED otherVars

\* if full_match: anchor; return result
AnchorReturn ==
    /\ pc = "anchor"
    /\ result' = Anchored(result, full_match)
    /\ pc' = "done"
    /\ UNCHANGED << args, i, in_quotes, quote_buffer, parts >>
    /\ UNCHANGED otherVars

Next ==
    \/ LiteralConvert
    \/ EnterGeneric
    \/ QuoteClose
    \/ QuoteOpen
    \/ QuoteCollect
    \/ SpaceRun
    \/ LetterRun
    \/ DigitRun
    \/ OtherChar
    \/ LoopExit
    \/ AnchorReturn

Spec == Init /\ [][Next]_vars

\* the call runs to its return: the interpreter keeps executing it
FairSpec == Spec /\ WF_vars(Next)

\* ------------------------------------------------------- claim vocabulary

\* the 14 regex-special characters, as a set
Special14 ==
    {".", "^", "$", "*", "+", "?", "(", ")", "[", "]", "{", "}", "|", BACKSLASH}

\* backslash+c for a special character, c itself otherwise
EscapedUnit(c) == IF c \in Special14 THEN << BACKSLASH, c >> ELSE << c >>

RECURSIVE Flatten(_)
Flatten(segs) ==
    IF Len(segs) = 0 THEN << >>
    ELSE Flatten(SubSeq(segs, 1, Len(segs) - 1)) \o segs[Len(segs)]

\* the in-order concatenation of the escaped units of s
LiteralEscaping(s) == Flatten([k \in 1..Len(s) |-> EscapedUnit(s[k])])

HasChar(s, c) == \E k \in 1..Len(s) : s[k] = c

\* the run class of a character: "space", "letter", "digit" or "none"
RunClass(c) ==
    IF isspace(c) THEN "space"
    ELSE IF isalpha(c) THEN "letter"
    ELSE IF isdigit(c) THEN "digit"
    ELSE "none"

\* 0-based position k of s lies outside quotes: it is no quote and an even
\* number of quotes precede it
QuotesBefore(s, k) == Cardinality({m \in 1..k : s[m] = QUOTE})
OutsideQuotes(s, k) == s[k + 1] # QUOTE /\ QuotesBefore(s, k) % 2 = 0

\* the length of the maximal run of the class of s[k] that starts at 0-based k
RunLengthAt(s, k) ==
    LET cls == RunClass(s[k + 1])
        stops == {e \in (k + 1)..Len(s) :
                     e = Len(s) \/ RunClass(s[e + 1]) # cls}
    IN  (CHOOSE e \in stops : \A f \in stops : e <= f) - k

\* 0-based k starts a maximal run outside quotes
RunStart(s, k) ==
    /\ OutsideQuotes(s, k)
    /\ RunClass(s[k + 1]) # "none"
    /\ k = 0 \/ RunClass(s[k]) # RunClass(s[k + 1])

\* the decimal numerals of 2..15, written out
Numeral ==
    << << "1" >>, << "2" >>, << "3" >>, << "4" >>, << "5" >>, << "6" >>,
       << "7" >>, << "8" >>, << "9" >>, << "1", "0" >>, << "1", "1" >>,
       << "1", "2" >>, << "1", "3" >>, << "1", "4" >>, << "1", "5" >> >>

ClassText(cls) ==
    CASE cls = "space" -> << BACKSLASH, "s" >>
      [] cls = "digit" -> << BACKSLASH, "d" >>
      [] cls = "letter" -> << "[", "a", "-", "z", "A", "-", "Z", "]" >>

\* the bare class token for n = 1, the class token followed by {n} otherwise
ClassToken(cls, n) ==
    IF n = 1 THEN ClassText(cls)
    ELSE ClassText(cls) \o << "{" >> \o Numeral[n] \o << "}" >>

AllClassTokens ==
    {ClassToken(cls, n) : cls \in {"space", "letter", "digit"}, n \in 1..15}

\* the 0-based position of the last quote before 0-based position k
LastQuoteBefore(s, k) ==
    CHOOSE q \in 0..(k - 1) :
        s[q + 1] = QUOTE /\ \A m \in (q + 1)..(k - 1) : s[m + 1] # QUOTE

\* the characters strictly between 0-based positions q and k
Between(s, q, k) == SubSeq(s, q + 2, k)

Returned == pc = "done"

\* ------------------------------------------------------------------ C1

\* C1: in literal mode without anchoring the returned pattern is the
\* in-order concatenation of backslash+c for each special character c of the
\* input and of c itself for every other character; an input with no special
\* character is returned unchanged.
C1_LiteralMode ==
    (Returned /\ ~generic_matching /\ ~full_match) =>
        /\ result = LiteralEscaping(input_string)
        /\ (\A k \in 1..Len(input_string) : input_string[k] \notin Special14)
               => result = input_string

\* a literal-mode call has returned for an input that mixes a special
\* character, a quote and a letter
C1_Witness ==
    /\ Returned /\ ~generic_matching /\ ~full_match
    /\ \E k \in 1..Len(input_string) : input_string[k] \in Special14
    /\ HasChar(input_string, QUOTE)
    /\ HasChar(input_string, "a")
    /\ Len(result) > Len(input_string)

\* ------------------------------------------------------------------ C2

\* the cursor stands outside quotes on a whitespace, letter or digit
AtRunChar ==
    /\ pc = "loop" /\ i < Len(input_string) /\ ~in_quotes
    /\ RunClass(CharAt(input_string, i)) # "none"

C2_Step ==
    AtRunChar =>
        LET n == RunLengthAt(input_string, i)
            cls == RunClass(CharAt(input_string, i))
        IN  /\ RunStart(input_string, i)
            /\ parts' = Append(parts, ClassToken(cls, n))
            /\ i' = i + n
            /\ pc' = "loop"

C2_Count ==
    (pc \in {"anchor", "done"} /\ generic_matching) =>
        Cardinality({k \in 1..Len(parts) : parts[k] \in AllClassTokens})
            = Cardinality({k \in 0..(Len(input_string) - 1) :
                              RunStart(input_string, k)})

\* C2: in generic mode every maximal run of n >= 1 whitespace, letter or
\* digit characters outside quotes yields exactly one token at its place, the
\* bare class token for n = 1 and the class token followed by {n} for n > 1,
\* and the cursor resumes right after the run.
C2_RunCoalescing == [][C2_Step]_vars /\ []C2_Count

\* a run of ten or more characters and a later run have both been tokenized
C2_Witness ==
    /\ pc = "anchor" /\ generic_matching
    /\ Len(parts) = 2
    /\ parts[1] = ClassToken("letter", 10)
    /\ parts[2] = ClassToken("digit", 1)

\* ------------------------------------------------------------------ C3

C3_Step ==
    (pc = "loop" /\ i < Len(input_string) /\ in_quotes
        /\ CharAt(input_string, i) = QUOTE) =>
        LET q == LastQuoteBefore(input_string, i)
        IN  /\ QuotesBefore(input_string, q) % 2 = 0
            /\ parts' = Append(parts, LiteralEscaping(Between(input_string, q, i)))
            /\ i' = i + 1

C3_NoQuote ==
    generic_matching =>
        /\ ~HasChar(result, QUOTE)
        /\ \A k \in 1..Len(parts) : ~HasChar(parts[k], QUOTE)

\* C3: in generic mode the characters between an opening quote and its
\* closing quote are emitted as one segment equal to their literal-mode
\* escaping, at their place, and no quote character reaches the output.
C3_QuotedSpans == [][C3_Step]_vars /\ []C3_NoQuote

\* a closed quoted span holding a letter was emitted, as that letter, after
\* an earlier token
C3_Witness ==
    /\ Returned /\ generic_matching
    /\ parts = << << BACKSLASH, "d" >>, << "a" >> >>
    /\ QuotesBefore(input_string, Len(input_string)) = 2

\* ------------------------------------------------------------------ C4

\* the loop has ended inside an open quote
EndsInQuote == pc = "loop" /\ ~(i < Len(input_string)) /\ in_quotes

C4_Step ==
    EndsInQuote =>
        LET q == LastQuoteBefore(input_string, Len(input_string))
        IN  /\ pc' = "anchor"
            /\ result' = Flatten(parts)
                   \o LiteralEscaping(Between(input_string, q, Len(input_string)))

C4_Example ==
    (pc = "anchor" /\ generic_matching /\ Len(input_string) > 0
        /\ Head(input_string) = QUOTE /\ ~HasChar(Tail(input_string), QUOTE))
        => result = LiteralEscaping(Tail(input_string))

\* C4: when the input ends inside an open quote the call still returns, and
\* the characters after the last opening quote are appended, literally
\* escaped, after all earlier segments; a quote followed by quote-free text t
\* yields the literal escaping of t.
C4_UnterminatedQuote == [][C4_Step]_vars /\ []C4_Example

\* an unterminated quote with buffered text after an earlier token returned
C4_Witness ==
    /\ Returned /\ generic_matching /\ in_quotes
    /\ quote_buffer # << >>
    /\ Len(parts) >= 2

\* ------------------------------------------------------------------ C5

C5_Step ==
    (pc = "loop" /\ i < Len(input_string) /\ ~in_quotes
        /\ CharAt(input_string, i) # QUOTE
        /\ RunClass(CharAt(input_string, i)) = "none") =>
        /\ parts' = Append(parts, EscapedUnit(CharAt(input_string, i)))
        /\ i' = i + 1

\* C5: in generic mode every character outside quotes that is no quote,
\* whitespace, letter or digit yields exactly one output unit at its place,
\* backslash+char if special and the char otherwise, and consecutive such
\* characters are never coalesced.
C5_OtherChars == [][C5_Step]_vars

\* two equal consecutive special characters gave two separate units
C5_Witness ==
    /\ pc = "anchor" /\ generic_matching
    /\ input_string = << ".", "." >>
    /\ parts = << << BACKSLASH, "." >>, << BACKSLASH, "." >> >>

\* ------------------------------------------------------------------ C6

\* C6: for either value of generic_matching the pattern returned with
\* full_match=True is '^' + the pattern returned with full_match=False + '$'.
C6_AnchoringToggle ==
    Returned =>
        IF full_match
            THEN result = << "^" >>
                     \o string_to_regex(regex_special_chars, input_string,
                                        generic_matching, FALSE)
                     \o << "$" >>
            ELSE string_to_regex(regex_special_chars, input_string,
                                 generic_matching, TRUE)
                     = << "^" >> \o result \o << "$" >>

\* an anchored generic-mode call has returned a pattern with a body
C6_Witness ==
    /\ Returned /\ full_match /\ generic_matching
    /\ Len(result) > 2
    /\ result[1] = "^" /\ result[Len(result)] = "$"

\* ------------------------------------------------------------------ C7

RECURSIVE WellFormedFrom(_, _, _)
\* p[k..] keeps to the grammar: every backslash is followed by a special
\* character, 's' or 'd'; every unescaped special character belongs to a
\* complete [a-zA-Z] class or to a complete {n} that directly follows a class
\* token (afterClass)
WellFormedFrom(p, k, afterClass) ==
    IF k > Len(p) THEN TRUE
    ELSE LET c == p[k] IN
    CASE c = BACKSLASH ->
            /\ k < Len(p)
            /\ p[k + 1] \in Special14 \cup {"s", "d"}
            /\ WellFormedFrom(p, k + 2, p[k + 1] \in {"s", "d"})
      [] c = "[" ->
            /\ k + 7 <= Len(p)
            /\ SubSeq(p, k, k + 7) = ClassText("letter")
            /\ WellFormedFrom(p, k + 8, TRUE)
      [] c = "{" ->
            LET e == CHOOSE x \in (k + 1)..(Len(p) + 1) : x > Len(p) \/ p[x] = "}"
            IN  /\ afterClass
                /\ e <= Len(p)
                /\ e > k + 1
                /\ \A m \in (k + 1)..(e - 1) : p[m] \in AsciiDigits
                /\ \A x \in (k + 1)..(e - 1) : p[x] # "}"
                /\ WellFormedFrom(p, e + 1, FALSE)
      [] c \in Special14 -> FALSE
      [] OTHER -> WellFormedFrom(p, k + 1, FALSE)

\* the pattern without the outer anchors full_match adds
Unanchored(p, full) ==
    IF ~full THEN p
    ELSE IF Len(p) >= 2 /\ p[1] = "^" /\ p[Len(p)] = "$"
        THEN SubSeq(p, 2, Len(p) - 1)
    ELSE << "(" >>

\* C7: for every input and flag combination the returned pattern is well
\* formed - backslashes are followed by a special character, 's' or 'd', and
\* unescaped special characters occur only in a complete [a-zA-Z], in a
\* complete {n} right after a class token, or as the outer anchors - and
\* compiling it does not fail.
C7_SyntacticValidity ==
    Returned =>
        /\ WellFormedFrom(Unanchored(result, full_match), 1, FALSE)
        /\ re_compile(result) # CompileError

\* a pattern with a two-digit count followed by an escaped special returned
C7_Witness ==
    /\ Returned /\ generic_matching /\ full_match
    /\ result = << "^", BACKSLASH, "d", "{", "1", "1", "}", BACKSLASH, ".", "$" >>

\* ------------------------------------------------------------------ C8

C8_Step ==
    (pc = "loop" /\ i < Len(input_string)) =>
        /\ i' > i
        /\ i' <= Len(input_string)
        /\ pc' = "loop"

C8_CursorInRange == i <= Len(input_string)

\* C8: every call returns - for every input, the empty one included, and
\* every flag combination - and in generic mode each loop iteration moves the
\* cursor forward by at least one position and never past len(input).
C8_Totality == [][C8_Step]_vars /\ []C8_CursorInRange /\ <>Returned

\* a generic-mode call returned after a run moved the cursor several
\* positions at once
C8_Witness ==
    /\ Returned /\ generic_matching
    /\ Len(input_string) >= 3
    /\ i = Len(input_string)
    /\ Len(parts) < Len(input_string)

\* ------------------------------------------------------------------ C9

\* C9: for the empty input the call returns the empty pattern without
\* full_match and exactly "^$" with it, in both modes.
C9_EmptyInput ==
    (Returned /\ input_string = << >>) =>
        result = (IF full_match THEN << "^", "$" >> ELSE << >>)

\* the anchored generic-mode call on the empty input has returned
C9_Witness ==
    /\ Returned /\ input_string = << >>
    /\ generic_matching /\ full_match
    /\ parts = << >>

\* ----------------------------------------------------------------- C10

\* the input with its quote characters removed
StripQuotes(s) == SelectSeq(s, LAMBDA c : c # QUOTE)

\* C10: the generic-mode pattern matches the input it was synthesized from
\* (quote characters removed), and the anchored literal-mode pattern of s
\* matches s over its whole length.
C10_SelfMatch ==
    Returned =>
        /\ generic_matching =>
               re_search(re_compile(result), StripQuotes(input_string)) # NoMatch
        /\ (~generic_matching /\ full_match) =>
               re_search(re_compile(result), input_string)
                   = [start |-> 0, end |-> Len(input_string)]

\* ----------------------------------------------------------------- C11

\* sample characters of each run class, ASCII and not
ClassSample(cls) ==
    CASE cls = "space" -> {" ", "\n"}
      [] cls = "letter" -> {"a", "u00E9"}
      [] cls = "digit" -> {"1", "u00B2"}

\* s is a run of n >= 1 characters of one class
SingleClassRun(s) ==
    /\ Len(s) >= 1
    /\ RunClass(s[1]) # "none"
    /\ \A k \in 1..Len(s) : RunClass(s[k]) = RunClass(s[1])

\* the compiled pattern finds a match in the subject
Matches(pattern, subject) == re_search(re_compile(pattern), subject) # NoMatch

\* C11: for an input that is a run of n characters of one class the anchored
\* generic pattern matches the subjects made of exactly n characters of that
\* class and no subject made of fewer or more characters of that class.
C11_RunLengthExact ==
    (Returned /\ generic_matching /\ full_match /\ SingleClassRun(input_string)) =>
        \A subject \in StringsUpTo(ClassSample(RunClass(input_string[1])),
                                   Len(input_string) + 1) :
            Matches(result, subject) <=> Len(subject) = Len(input_string)

\* ----------------------------------------------------------------- C12

\* characters put before and after a text to form a longer subject
PadChars == {"a", " ", "\n", "."}

\* the subjects that carry base with at most one character before and after
Padded(base) ==
    {pre \o base \o suf :
        pre \in StringsUpTo(PadChars, 1), suf \in StringsUpTo(PadChars, 1)}

\* C12: with full_match=True the compiled pattern, applied with search,
\* matches a subject only when the match consumes the entire subject.
C12_FullMatch ==
    (Returned /\ full_match) =>
        \A subject \in Padded(input_string) \cup Padded(StripQuotes(input_string)) :
            LET m == re_search(re_compile(result), subject)
            IN  m # NoMatch => (m.start = 0 /\ m.end = Len(subject))

\* ----------------------------------------------------------------- C13

\* C13: the unanchored generic pattern of s finds a match in every longer
\* string prefix + s + suffix that embeds s unchanged.
C13_SubstringMatch ==
    (Returned /\ generic_matching /\ ~full_match) =>
        \A subject \in Padded(input_string) :
            Len(subject) > Len(input_string) => Matches(result, subject)

\* ------------------------------------- several calls on one RegexConverter

\* the longest input of a concurrent call
MaxConcLen == 2

\* the calls in progress on the one converter
CallIds == {1, 2}

ConcChars == {"a", QUOTE, "."}

\* the frame of a call that has just been entered
NewFrame(s, generic, full) ==
    [input_string |-> s, generic_matching |-> generic, full_match |-> full,
     locals |-> InitLocals, result |-> << >>, pc |-> "entry"]

\* locals kept on the converter: a store by one call is seen by every call
StoreSharedParts(fs, c, st, res, at) ==
    [k \in DOMAIN fs |->
        IF k = c THEN [fs[k] EXCEPT !.locals = st, !.result = res, !.pc = at]
        ELSE [fs[k] EXCEPT !.locals.parts = st.parts]]

\* i, in_quotes, quote_buffer, parts and result are locals of the call: a
\* store by call c changes the frame of c only
Store(fs, c, st, res, at) ==
    [fs EXCEPT ![c] = [@ EXCEPT !.locals = st, !.result = res, !.pc = at]]

\* RegexConverter(), then CallIds calls of string_to_regex entered on it
ConcInit ==
    /\ regex_special_chars = RawSpecialChars
    /\ ConvIdle
    /\ CliIdle
    /\ ExIdle
    /\ RestIdle
    /\ frames \in [CallIds ->
                     {NewFrame(s, g, f) :
                         s \in StringsUpTo(ConcChars, MaxConcLen),
                         g \in BOOLEAN, f \in BOOLEAN}]

\* what a step of a concurrent call leaves alone: the converter's attribute
\* is only read
ConcUnchanged == UNCHANGED << convVars, cliVars, exVars, restVars >>

\* call c: the literal conversion
CallLiteral(c) ==
    /\ frames[c].pc = "entry"
    /\ ~frames[c].generic_matching
    /\ frames' = Store(frames, c, frames[c].locals,
                       EscapeJoin(frames[c].input_string, regex_special_chars),
                       "anchor")
    /\ ConcUnchanged

\* call c: parts = [], i = 0, in_quotes = False, quote_buffer = ""
CallEnterGeneric(c) ==
    /\ frames[c].pc = "entry"
    /\ frames[c].generic_matching
    /\ frames' = Store(frames, c, InitLocals, frames[c].result, "loop")
    /\ ConcUnchanged

\* call c: one iteration of the while loop
CallIterate(c) ==
    /\ frames[c].pc = "loop"
    /\ frames[c].locals.i < Len(frames[c].input_string)
    /\ frames' = Store(frames, c,
                       LoopBody(frames[c].input_string, frames[c].locals,
                                regex_special_chars),
                       frames[c].result, "loop")
    /\ ConcUnchanged

\* call c: the loop ends, the buffer is flushed and the parts are joined
CallLoopExit(c) ==
    /\ frames[c].pc = "loop"
    /\ frames[c].locals.i >= Len(frames[c].input_string)
    /\ LET flushed == FlushParts(frames[c].locals, regex_special_chars)
       IN  frames' = Store(frames, c,
                           [frames[c].locals EXCEPT !.parts = flushed],
                           Join(flushed), "anchor")
    /\ ConcUnchanged

\* call c: the anchors are added and the result is returned
CallReturn(c) ==
    /\ frames[c].pc = "anchor"
    /\ frames' = Store(frames, c, frames[c].locals,
                       Anchored(frames[c].result, frames[c].full_match), "done")
    /\ ConcUnchanged

ConcNext ==
    \E c \in CallIds :
        \/ CallLiteral(c)
        \/ CallEnterGeneric(c)
        \/ CallIterate(c)
        \/ CallLoopExit(c)
        \/ CallReturn(c)

\* the calls are interleaved in any order, one step at a time
ConcurrentSpec == ConcInit /\ [][ConcNext]_vars

\* what call c returns when it runs alone on a fresh converter
Alone(c) ==
    string_to_regex(RawSpecialChars, frames[c].input_string,
                    frames[c].generic_matching, frames[c].full_match)

SameArguments(c, d) ==
    /\ frames[c].input_string = frames[d].input_string
    /\ frames[c].generic_matching = frames[d].generic_matching
    /\ frames[c].full_match = frames[d].full_match

\* C14: no step of a call changes the converter's regex_special_chars; in
\* every interleaving each call that has returned has returned what it
\* returns when run alone; and two calls with the same arguments have
\* returned the same string.
C14_Independence ==
    /\ [][regex_special_chars' = regex_special_chars]_vars
    /\ [](regex_special_chars = RawSpecialChars)
    /\ [](\A c \in CallIds :
            frames[c].pc = "done" => frames[c].result = Alone(c))
    /\ [](\A c, d \in CallIds :
            (frames[c].pc = "done" /\ frames[d].pc = "done" /\ SameArguments(c, d))
                => frames[c].result = frames[d].result)

\* call 1 has returned a generic pattern while call 2, on another input, is
\* in the middle of its scan with parts of its own
C14_Witness ==
    /\ frames[1].pc = "done"
    /\ frames[1].generic_matching
    /\ frames[1].result = << "[", "a", "-", "z", "A", "-", "Z", "]", BACKSLASH, "." >>
    /\ frames[2].pc = "loop"
    /\ frames[2].input_string = << QUOTE, "." >>
    /\ frames[2].locals.i = 1
    /\ frames[2].locals.in_quotes

\* ------------------------------------------------ main() of convert_regex

\* the longest input string given to main()
MaxCliLen == 2

\* the most test strings entered
MaxTests == 2

CliChars == {"a", "1", QUOTE}

\* the lines a user enters at the "> " prompt, the empty line apart
TestLines == {<< "a" >>, << "1", "a" >>, << "." >>}

\* main() is started with sys.argv[1], or the line read by input()
CliInit ==
    /\ regex_special_chars = RawSpecialChars
    /\ ConvIdle
    /\ NoFrames
    /\ ExIdle
    /\ RestIdle
    /\ cli_pc = "start"
    /\ cli_input \in StringsUpTo(CliChars, MaxCliLen)
    /\ regex_pattern = << >>
    /\ test_strings = << >>
    /\ stdout = << >>
    /\ exit_code = 0

CliUnchanged == UNCHANGED << convVars, frames, exVars, restVars >>

\* regex_pattern = converter.string_to_regex(input_string, True, False),
\* printed under "Regex Pattern:"
CliConvert ==
    /\ cli_pc = "start"
    /\ regex_pattern' = string_to_regex(regex_special_chars, cli_input, TRUE, FALSE)
    /\ cli_pc' = "ask"
    /\ UNCHANGED << cli_input, test_strings, stdout, exit_code >>
    /\ CliUnchanged

\* the answer to "Test this pattern? (y/n): " does not start with y: main()
\* returns
AnswerNo ==
    /\ cli_pc = "ask"
    /\ cli_pc' = "done"
    /\ exit_code' = 0
    /\ UNCHANGED << cli_input, regex_pattern, test_strings, stdout >>
    /\ CliUnchanged

\* the answer starts with y: test_strings = []
AnswerYes ==
    /\ cli_pc = "ask"
    /\ cli_pc' = "read"
    /\ test_strings' = << >>
    /\ UNCHANGED << cli_input, regex_pattern, stdout, exit_code >>
    /\ CliUnchanged

\* a non-empty line is read: test_strings.append(test_input)
ReadTestString ==
    /\ cli_pc = "read"
    /\ Len(test_strings) < MaxTests
    /\ \E test_input \in TestLines : test_strings' = Append(test_strings, test_input)
    /\ UNCHANGED << cli_pc, cli_input, regex_pattern, stdout, exit_code >>
    /\ CliUnchanged

\* the empty line is read and the loop is left. With no test string main()
\* returns. Otherwise "Test Results:" is printed and converter.test_regex is
\* called with three arguments; test_regex is defined as test_regex(self), so
\* the call raises TypeError before the body of the for loop runs once:
\* nothing is printed for any test string and the interpreter exits with 1.
ReadEmptyLine ==
    /\ cli_pc = "read"
    /\ cli_pc' = "done"
    /\ exit_code' = IF test_strings = << >> THEN 0 ELSE 1
    /\ UNCHANGED << cli_input, regex_pattern, test_strings, stdout >>
    /\ CliUnchanged

CliNext ==
    \/ CliConvert
    \/ AnswerNo
    \/ AnswerYes
    \/ ReadTestString
    \/ ReadEmptyLine

CliSpec == CliInit /\ [][CliNext]_vars

\* the line the claim expects for one test string: the string, whether the
\* unanchored search of the pattern finds a match, and the matched text
Report(pattern, string) ==
    LET m == re_search(re_compile(pattern), string)
    IN  [string |-> string,
         matched |-> m # NoMatch,
         matched_text |-> IF m = NoMatch THEN << >>
                          ELSE SubSeq(string, m.start + 1, m.end)]

\* C15: when main() has ended after the user entered one or more test
\* strings, it has printed for each of them, in entry order, MATCH with the
\* matched text or NO MATCH by unanchored search of the produced pattern,
\* and the exit code is 0.
C15_CliTestLoop ==
    (cli_pc = "done" /\ test_strings # << >>) =>
        /\ exit_code = 0
        /\ stdout = [k \in 1..Len(test_strings) |->
                        Report(regex_pattern, test_strings[k])]

\* ------------------------------------------- PDFExtractor.extract_from_pdf

\* the longest pattern list of the field under study
MaxPatterns == 2

\* What re does with one pattern on the extracted text: raises is the call of
\* re.finditer or re.search raising (re.error for a pattern that does not
\* compile); has_group is the pattern defining group 1; ms are the matches
\* of re.finditer in text order, whose first is the match of re.search. A
\* match carries group(0), group(1), and whether group 1 took part in it
\* (group(1) is None when it did not).
Match(whole, g1) == [whole |-> whole, g1 |-> g1, g1_set |-> TRUE]

MatchNoGroup1(whole) == [whole |-> whole, g1 |-> << >>, g1_set |-> FALSE]

Pat(raises, has_group, ms) == [raises |-> raises, has_group |-> has_group, ms |-> ms]

PRaises == Pat(TRUE, FALSE, << >>)
PNoMatch == Pat(FALSE, TRUE, << >>)
POneA == Pat(FALSE, TRUE, << Match(<< "#", " ", "A" >>, << " ", "A" >>) >>)
POneZ == Pat(FALSE, TRUE, << Match(<< "#", "Z" >>, << "Z" >>) >>)
PMany ==
    Pat(FALSE, TRUE,
        << Match(<< "#", " ", "A" >>, << " ", "A" >>),
           Match(<< "#", " " >>, << " " >>),
           Match(<< "#", "Z" >>, << "Z" >>),
           Match(<< "#", "A" >>, << "A" >>) >>)
PWhole == Pat(FALSE, FALSE, << Match(<< "#", "Z", " " >>, << >>) >>)
POptional ==
    Pat(FALSE, TRUE,
        << MatchNoGroup1(<< "#" >>), Match(<< "#", "Z" >>, << "Z" >>) >>)
PComma == Pat(FALSE, TRUE, << Match(<< "#", "1", ",", "1" >>, << "1", ",", "1" >>) >>)

PatternMenu == {PRaises, PNoMatch, POneA, POneZ, PMany, PWhole, POptional, PComma}

RECURSIVE lstrip(_)
lstrip(s) == IF s # << >> /\ isspace(Head(s)) THEN lstrip(Tail(s)) ELSE s

RECURSIVE rstrip(_)
rstrip(s) ==
    IF s # << >> /\ isspace(s[Len(s)]) THEN rstrip(SubSeq(s, 1, Len(s) - 1)) ELSE s

\* str.strip()
strip(s) == rstrip(lstrip(s))

\* re.sub(r"[^0-9A-Za-z]", "", s)
AlnumOnly(s) == SelectSeq(s, LAMBDA c : c \in AsciiLetters \cup AsciiDigits)

\* s.replace(",", "")
RemoveCommas(s) == SelectSeq(s, LAMBDA c : c # ",")

Range(list) == {list[k] : k \in 1..Len(list)}

\* result[key] = value
SetKey(res, key, value) ==
    [k \in DOMAIN res \cup {key} |-> IF k = key THEN value ELSE res[k]]

\* the result dictionary as it is initialised
InitResult(all) ==
    LET base == [company_name |-> << >>, gst_number |-> << >>,
                 invoice_number |-> << >>, amount |-> << >>]
    IN  IF all THEN SetKey(base, "invoice_number_candidates", << >>) ELSE base

\* try: match.group(1).strip()  except IndexError: match.group(0).strip()
\* A group 1 that did not take part makes group(1) None, and None.strip()
\* raises AttributeError, which the except IndexError does not catch.
Stripped(pat, m) ==
    IF ~pat.has_group THEN [raised |-> FALSE, value |-> strip(m.whole)]
    ELSE IF ~m.g1_set THEN [raised |-> TRUE, value |-> << >>]
    ELSE [raised |-> FALSE, value |-> strip(m.g1)]

\* if candidate and candidate not in list: list.append(candidate)
AppendNew(list, candidate) ==
    IF candidate # << >> /\ candidate \notin Range(list)
        THEN Append(list, candidate) ELSE list

RECURSIVE InvoiceLoop(_, _, _)
\* for match in matches, over the invoice candidates: the list is the one in
\* result, so what was appended before a raise stays
InvoiceLoop(pat, ms, list) ==
    IF ms = << >> THEN [raised |-> FALSE, list |-> list]
    ELSE LET c == Stripped(pat, Head(ms))
         IN  IF c.raised THEN [raised |-> TRUE, list |-> list]
             ELSE InvoiceLoop(pat, Tail(ms), AppendNew(list, c.value))

RECURSIVE GstLoop(_, _, _)
\* for match in matches, over gst_candidates
GstLoop(pat, ms, list) ==
    IF ms = << >> THEN [raised |-> FALSE, list |-> list]
    ELSE LET c == Stripped(pat, Head(ms))
         IN  IF c.raised THEN [raised |-> TRUE, list |-> list]
             ELSE GstLoop(pat, Tail(ms), AppendNew(list, AlnumOnly(c.value)))

RECURSIVE Seek(_, _, _)
\* the next pattern the two for loops reach from pattern p of field f on: p
\* itself when the list of f has it, else the first pattern of the next
\* field with patterns; f is past the last field when the loops are over
Seek(pats, f, p) ==
    IF f > Len(pats) THEN [f |-> f, p |-> 1]
    ELSE IF p > Len(pats[f].pattern_list) THEN Seek(pats, f + 1, 1)
    ELSE [f |-> f, p |-> p]

\* continue, or the end of the body of the inner loop
Continue(pats, f, p) == Seek(pats, f, p + 1)

\* break out of the inner loop
Break(pats, f) == Seek(pats, f + 1, 1)

\* an except clause placed around both loops
OnErrorAbort(pats, f, p) == [f |-> Len(pats) + 1, p |-> 1]

\* except Exception as e: ... continue
OnError(pats, f, p) == Seek(pats, f, p + 1)

\* the first-match value without the reformatting of the GST number
FirstMatchValueUncleaned(field, pat, m) == Stripped(pat, m).value

\* result[field] of the first-match branch: group 1 or the whole match,
\* stripped, and for gst_number with the non-alphanumerics removed
FirstMatchValue(field, pat, m) ==
    IF field = "gst_number" THEN AlnumOnly(Stripped(pat, m).value)
    ELSE Stripped(pat, m).value

FieldNames == {"gst_number", "invoice_number", "amount", "company_name", "po_number"}

Entry(field, pattern_list) == [field |-> field, pattern_list |-> pattern_list]

\* the second field of the dictionary
OtherField(field) == IF field = "gst_number" THEN "company_name" ELSE "gst_number"

OtherLists == {<< POneA >>, << PRaises >>}

\* self.patterns: two fields in either order, one with any list of at most
\* MaxPatterns patterns
PatternDicts ==
    LET pairs == {<< Entry(f, l), Entry(OtherField(f), o) >> :
                     f \in FieldNames, l \in StringsUpTo(PatternMenu, MaxPatterns),
                     o \in OtherLists}
    IN  pairs \cup {<< d[2], d[1] >> : d \in pairs}

\* self.gst_company_mappings: empty, or one GST number with its company
MappingChoices ==
    {[k \in {} |-> << >>], [k \in {<< "A" >>} |-> << "C", "o" >>]}

\* PDFExtractor() with any patterns and mappings, then extract_from_pdf
\* entered: result is initialised
ExInit ==
    /\ regex_special_chars = RawSpecialChars
    /\ ConvIdle
    /\ NoFrames
    /\ CliIdle
    /\ RestIdle
    /\ ex_pc = "start"
    /\ pdf_exists \in BOOLEAN
    /\ all_matches \in BOOLEAN
    /\ patterns \in PatternDicts
    /\ gst_company_mappings \in MappingChoices
    /\ ex_result = InitResult(all_matches)
    /\ field_idx = 0
    /\ pattern_idx = 0

ExUnchanged ==
    UNCHANGED << convVars, frames, cliVars, restVars, pdf_exists, all_matches,
                 patterns, gst_company_mappings >>

MoveTo(pos) ==
    /\ field_idx' = pos.f
    /\ pattern_idx' = pos.p

\* the loops are at a pattern
AtPattern == ex_pc = "loop" /\ field_idx <= Len(patterns)

CurField == patterns[field_idx].field

Cur == patterns[field_idx].pattern_list[pattern_idx]

\* the field is handled by one of the two collecting branches
CollectMode(field) == all_matches /\ field \in {"invoice_number", "gst_number"}

\* if not os.path.exists(pdf_path): return result
FileMissing ==
    /\ ex_pc = "start"
    /\ ~pdf_exists
    /\ ex_pc' = "done"
    /\ UNCHANGED << ex_result, field_idx, pattern_idx >>
    /\ ExUnchanged

\* the text of the first page is extracted and the loops are entered
OpenPdf ==
    /\ ex_pc = "start"
    /\ pdf_exists
    /\ ex_pc' = "loop"
    /\ MoveTo(Seek(patterns, 1, 1))
    /\ UNCHANGED ex_result
    /\ ExUnchanged

\* re.finditer or re.search raises on the pattern: logged, continue
ApplyRaises ==
    /\ AtPattern
    /\ Cur.raises
    /\ MoveTo(OnError(patterns, field_idx, pattern_idx))
    /\ UNCHANGED << ex_pc, ex_result >>
    /\ ExUnchanged

\* if field == "invoice_number" and all_matches
CollectInvoice ==
    /\ AtPattern
    /\ ~Cur.raises
    /\ CurField = "invoice_number"
    /\ all_matches
    /\ LET r == InvoiceLoop(Cur, Cur.ms, ex_result["invoice_number_candidates"])
       IN  /\ ex_result' = SetKey(ex_result, "invoice_number_candidates", r.list)
           /\ MoveTo(IF r.raised THEN OnError(patterns, field_idx, pattern_idx)
                     ELSE Continue(patterns, field_idx, pattern_idx))
    /\ UNCHANGED ex_pc
    /\ ExUnchanged

\* if field == "gst_number" and all_matches
CollectGst ==
    /\ AtPattern
    /\ ~Cur.raises
    /\ CurField = "gst_number"
    /\ all_matches
    /\ LET r == GstLoop(Cur, Cur.ms, << >>)
           gst_candidates == r.list
       IN  IF r.raised
               THEN /\ MoveTo(OnError(patterns, field_idx, pattern_idx))
                    /\ UNCHANGED ex_result
           ELSE IF Len(gst_candidates) = 0
               THEN /\ MoveTo(Continue(patterns, field_idx, pattern_idx))
                    /\ UNCHANGED ex_result
           ELSE IF Len(gst_candidates) = 1
               THEN /\ ex_result' = SetKey(ex_result, CurField, gst_candidates[1])
                    /\ MoveTo(Continue(patterns, field_idx, pattern_idx))
           ELSE /\ ex_result' = SetKey(ex_result, "gst_number_candidates", gst_candidates)
                /\ MoveTo(Break(patterns, field_idx))
    /\ UNCHANGED ex_pc
    /\ ExUnchanged

\* match = re.search(...) is None: the next pattern
SearchMiss ==
    /\ AtPattern
    /\ ~Cur.raises
    /\ ~CollectMode(CurField)
    /\ Cur.ms = << >>
    /\ MoveTo(Continue(patterns, field_idx, pattern_idx))
    /\ UNCHANGED << ex_pc, ex_result >>
    /\ ExUnchanged

\* if match: result[field] is set and the inner loop is left; when
\* match.group(1) is None the assignment raises and the pattern is skipped
SearchHit ==
    /\ AtPattern
    /\ ~Cur.raises
    /\ ~CollectMode(CurField)
    /\ Cur.ms # << >>
    /\ IF Stripped(Cur, Cur.ms[1]).raised
           THEN /\ MoveTo(OnError(patterns, field_idx, pattern_idx))
                /\ UNCHANGED ex_result
           ELSE /\ ex_result' = SetKey(ex_result, CurField,
                                       FirstMatchValue(CurField, Cur, Cur.ms[1]))
                /\ MoveTo(Break(patterns, field_idx))
    /\ UNCHANGED ex_pc
    /\ ExUnchanged

\* the mapped name put in whenever the GST number is a key
MappedCompanyAlways(res, table) ==
    IF res["gst_number"] # << >> /\ res["gst_number"] \in DOMAIN table
        THEN table[res["gst_number"]]
        ELSE res["company_name"]

\* the company name after the fallback to gst_company_mappings
MappedCompany(res, table) ==
    IF /\ res["gst_number"] # << >>
       /\ res["company_name"] = << >>
       /\ res["gst_number"] \in DOMAIN table
        THEN table[res["gst_number"]]
        ELSE res["company_name"]

\* after the loops: the commas leave the amount, an empty company name is
\* looked up by GST number, and result is returned
PostProcess ==
    /\ ex_pc = "loop"
    /\ field_idx > Len(patterns)
    /\ ex_result' =
           SetKey(SetKey(ex_result, "amount", RemoveCommas(ex_result["amount"])),
                  "company_name", MappedCompany(ex_result, gst_company_mappings))
    /\ ex_pc' = "done"
    /\ UNCHANGED << field_idx, pattern_idx >>
    /\ ExUnchanged

ExNext ==
    \/ FileMissing
    \/ OpenPdf
    \/ ApplyRaises
    \/ CollectInvoice
    \/ CollectGst
    \/ SearchMiss
    \/ SearchHit
    \/ PostProcess

ExtractSpec == ExInit /\ [][ExNext]_vars

\* ---------------------------------------------- claims on extract_from_pdf

\* extract_from_pdf has returned after reading the text of the file
Extracted == ex_pc = "done" /\ pdf_exists

\* re.search finds the pattern in the text
MatchesText(pat) == ~pat.raises /\ pat.ms # << >>

\* the loops stay in the field they are in, at a later pattern
LaterPatternApplied ==
    /\ ex_pc' = "loop"
    /\ field_idx' = field_idx
    /\ pattern_idx' > pattern_idx

\* a pattern of a first-match field is applied: when it does not match, the
\* next pattern of the list is next; when it matches, no later pattern of
\* the field is applied
C16_Step ==
    (AtPattern /\ ~CollectMode(CurField)) =>
        IF MatchesText(Cur) THEN ~LaterPatternApplied
        ELSE MoveTo(Seek(patterns, field_idx, pattern_idx + 1))

\* C16: for a field not in collect-all mode the patterns are tried in list
\* order and the first pattern that matches the text ends the field: no
\* pattern listed after it is applied.
C16_FirstMatchOrder == [][C16_Step]_vars

\* the value of a key of the returned dictionary, empty when it is absent
Value(res, key) == IF key \in DOMAIN res THEN res[key] ELSE << >>

\* the entries of self.patterns handled by the first-match branch
FirstMatchEntries ==
    {patterns[k] : k \in {x \in 1..Len(patterns) : ~CollectMode(patterns[x].field)}}

\* the position in the list of its first pattern with property P
FirstWith(list, P(_)) ==
    LET ks == {k \in 1..Len(list) : P(list[k])}
    IN  IF ks = {} THEN 0 ELSE CHOOSE k \in ks : \A x \in ks : k <= x

\* group 1 of the first match, or the whole match of a pattern without
\* group, stripped
Base(pat) ==
    IF pat.has_group THEN strip(pat.ms[1].g1) ELSE strip(pat.ms[1].whole)

Usable(pat) == MatchesText(pat) /\ (pat.has_group => pat.ms[1].g1_set)

\* what is returned for a field whose pattern loop left the value base
Returns(field, base) ==
    CASE field = "gst_number" -> SelectSeq(base, LAMBDA c : c \in {"A", "Z", "1"})
      [] field = "amount" -> SelectSeq(base, LAMBDA c : c # ",")
      [] field = "company_name" ->
            IF /\ base = << >>
               /\ ex_result["gst_number"] \in DOMAIN gst_company_mappings
                THEN gst_company_mappings[ex_result["gst_number"]]
                ELSE base
      [] OTHER -> base

\* a usable pattern of a first-match field is applied: the field gets its
\* base value (without the non-alphanumerics for gst_number) and ends
C17_Step ==
    (AtPattern /\ ~CollectMode(CurField) /\ Usable(Cur)) =>
        /\ ~LaterPatternApplied
        /\ ex_result'[CurField] =
               IF CurField = "gst_number" THEN Returns(CurField, Base(Cur))
               ELSE Base(Cur)

ListOf(field) ==
    LET ks == {k \in 1..Len(patterns) : patterns[k].field = field}
    IN  IF ks = {} THEN << >> ELSE patterns[CHOOSE k \in ks : TRUE].pattern_list

\* the text a match stands for: group 1, or the whole match of a pattern
\* without group, stripped; nothing when group 1 did not take part
MatchText(pat, m) ==
    IF ~pat.has_group THEN strip(m.whole)
    ELSE IF m.g1_set THEN strip(m.g1) ELSE << >>

RECURSIVE MatchTexts(_)
\* the texts of all matches of all patterns of a list that can be applied:
\* patterns in list order, matches in text order
MatchTexts(list) ==
    IF list = << >> THEN << >>
    ELSE (IF Head(list).raises THEN << >>
          ELSE [k \in 1..Len(Head(list).ms) |-> MatchText(Head(list), Head(list).ms[k])])
         \o MatchTexts(Tail(list))

RECURSIVE FirstSeen(_, _)
\* the distinct non-empty members of texts in order of first occurrence,
\* after those in seen
FirstSeen(texts, seen) ==
    IF texts = << >> THEN seen
    ELSE FirstSeen(Tail(texts),
                   IF Head(texts) # << >> /\ \A k \in 1..Len(seen) : seen[k] # Head(texts)
                       THEN seen \o << Head(texts) >> ELSE seen)

\* C18: with all_matches=True the returned invoice_number_candidates are the
\* distinct non-empty stripped matches of all invoice_number patterns over
\* the text, each once, in order of first occurrence.
C18_InvoiceCandidates ==
    (Extracted /\ all_matches) =>
        Value(ex_result, "invoice_number_candidates")
            = FirstSeen(MatchTexts(ListOf("invoice_number")), << >>)

\* the distinct GST values matched by the patterns of the gst_number list,
\* without their non-alphanumerics, in order of first occurrence
GstValues ==
    LET texts == MatchTexts(ListOf("gst_number"))
    IN  FirstSeen([k \in 1..Len(texts) |-> Returns("gst_number", texts[k])], << >>)

\* C19: with all_matches=True the distinct GST values matched by the patterns
\* of the gst_number list are all reported: gst_number is the value when
\* there is exactly one, and gst_number_candidates holds them in first-seen
\* order across the patterns when there are several.
C19_GstCandidates ==
    (Extracted /\ all_matches) =>
        /\ Len(GstValues) = 1 => Value(ex_result, "gst_number") = GstValues[1]
        /\ Len(GstValues) > 1 => Value(ex_result, "gst_number_candidates") = GstValues

\* applying the pattern to the text for this field raises: re raises on it,
\* or a match that the branch of the field reads has a group 1 that is None
Failing(field, pat) ==
    \/ pat.raises
    \/ /\ pat.has_group
       /\ pat.ms # << >>
       /\ IF CollectMode(field) THEN \E k \in 1..Len(pat.ms) : ~pat.ms[k].g1_set
          ELSE ~pat.ms[1].g1_set

\* every pattern of the entry fails or does not match
AllFail(e) ==
    \A k \in 1..Len(e.pattern_list) :
        Failing(e.field, e.pattern_list[k]) \/ e.pattern_list[k].ms = << >>

AllEntries == {patterns[k] : k \in 1..Len(patterns)}

\* the claim as stated: a field whose patterns all fail or do not match is
\* returned empty
C20_AsStated ==
    Extracted => \A e \in AllEntries : AllFail(e) => Value(ex_result, e.field) = << >>

\* a failing pattern is applied: the loops go on with the next pattern of
\* the field, or with the next field after the last one, and every value of
\* the result is as before (the invoice candidates appended before the
\* failure apart)
C20_Step ==
    (AtPattern /\ Failing(CurField, Cur)) =>
        /\ ex_pc' = "loop"
        /\ MoveTo(Seek(patterns, field_idx, pattern_idx + 1))
        /\ DOMAIN ex_result' = DOMAIN ex_result
        /\ \A key \in DOMAIN ex_result \ {"invoice_number_candidates"} :
              ex_result'[key] = ex_result[key]

\* the two for loops are over
LoopsOver == ex_pc = "loop" /\ field_idx > Len(patterns)

\* C20 (amended): a pattern that fails to compile or raises while being
\* matched is skipped, the next pattern of the same field is tried, and the
\* values already in the result stay; a field whose patterns all fail or do
\* not match is empty when the loops are over; it is returned empty, except
\* company_name, which is returned as the company mapped to the extracted
\* gst_number when gst_company_mappings has one.
C20_FailureIsolation ==
    /\ [][C20_Step]_vars
    /\ [](LoopsOver =>
            \A e \in AllEntries : AllFail(e) => Value(ex_result, e.field) = << >>)
    /\ [](Extracted =>
            \A e \in AllEntries :
                AllFail(e) =>
                    Value(ex_result, e.field)
                        = IF /\ e.field = "company_name"
                             /\ ex_result["gst_number"] \in DOMAIN gst_company_mappings
                              THEN gst_company_mappings[ex_result["gst_number"]]
                              ELSE << >>)

\* the only company_name pattern raised, the first gst_number pattern raised
\* and the second one was still applied; the company is the mapped one
C20_Witness ==
    /\ Extracted
    /\ patterns = << Entry("company_name", << PRaises >>),
                     Entry("gst_number", << PRaises, POneA >>) >>
    /\ ex_result["gst_number"] = << "A" >>
    /\ ex_result["company_name"] = << "C", "o" >>

\* ------------------------------------------------------- GSTMappingDialog

\* the length a GST number must have
GstLen == 15

\* the characters of [0-9A-Z] in the alphabet of the model
GstClass == AsciiDigits \cup {"A", "Z"}

\* the check without the character class: any 15 characters
gst_format_any_chars(s) == Len(s) = GstLen

\* re.match(r"^[0-9A-Z]{15}$", s): 15 characters of the class from the start,
\* then the end of s or its final newline
gst_format(s) ==
    /\ Len(s) >= GstLen
    /\ \A k \in 1..GstLen : s[k] \in GstClass
    /\ \/ Len(s) = GstLen
       \/ Len(s) = GstLen + 1 /\ s[GstLen + 1] = "\n"

\* a dict as the sequence of its items in insertion order
DictKeys(d) == {d[k].key : k \in 1..Len(d)}

DictGet(d, key) == d[CHOOSE k \in 1..Len(d) : d[k].key = key].value

\* d[key] = value: a present key keeps its place
DictSet(d, key, value) ==
    IF key \in DictKeys(d)
        THEN [k \in 1..Len(d) |->
                 IF d[k].key = key THEN [key |-> key, value |-> value] ELSE d[k]]
        ELSE Append(d, [key |-> key, value |-> value])

\* del d[key]
DictDel(d, key) == SelectSeq(d, LAMBDA item : item.key # key)

\* the texts typed into the GST number field
GstTexts ==
    {<< >>, << " " >>,
     Repeat("A", 15), Repeat("Z", 15), Repeat("1", 14) \o << "Z" >>,
     << " " >> \o Repeat("A", 15) \o << " ", "\n" >>,
     Repeat("A", 14), Repeat("A", 16),
     Repeat("A", 14) \o << "a" >>, Repeat("1", 14) \o << "-" >>,
     Repeat("A", 7) \o << " " >> \o Repeat("A", 7),
     Repeat("A", 14) \o << "u00E9" >>}

\* the texts typed into the company name field
CompanyTexts == {<< >>, << " " >>, << "C", "o" >>, << " ", "B" >>, << "D", ":" >>}

\* the dialog is opened on an empty settings store
GstInit ==
    /\ IdleBut("gst")
    /\ mappings = << >>
    /\ settings_mappings = << >>
    /\ gst_edit = << >>
    /\ company_name_edit = << >>
    /\ gst_op = "open"

\* the user types into the two fields
EditMapping ==
    /\ gst_edit' \in GstTexts
    /\ company_name_edit' \in CompanyTexts
    /\ gst_op' = "edit"
    /\ UNCHANGED << mappings, settings_mappings >>
    /\ UnchangedBut("gst")

\* the text of the list item of row k: f"{gst_number}: {company_name}"
ItemText(d, k) == d[k].key \o << ":", " " >> \o d[k].value

\* item_text.split(":", 1)[0].strip()
BeforeColon(text) ==
    LET ks == {k \in 1..Len(text) : text[k] = ":"}
    IN  strip(IF ks = {} THEN text
              ELSE SubSeq(text, 1, (CHOOSE k \in ks : \A x \in ks : k <= x) - 1))

\* save_mapping(): only a non-empty stripped GST number of the right format
\* with a non-empty stripped company name is stored and persisted
SaveMapping ==
    /\ gst_op' = "save_mapping"
    /\ LET gst_number == strip(gst_edit)
           company_name == strip(company_name_edit)
       IN  IF gst_number = << >> \/ company_name = << >> \/ ~gst_format(gst_number)
               THEN UNCHANGED << mappings, settings_mappings >>
               ELSE /\ mappings' = DictSet(mappings, gst_number, company_name)
                    /\ settings_mappings' = mappings'
    /\ UNCHANGED << gst_edit, company_name_edit >>
    /\ UnchangedBut("gst")

\* remove_mapping() with no row selected, or with the answer No
RemoveNothing ==
    /\ gst_op' = "remove_mapping"
    /\ UNCHANGED << mappings, settings_mappings, gst_edit, company_name_edit >>
    /\ UnchangedBut("gst")

\* remove_mapping() on a selected row with the answer Yes: the mapping of the
\* GST number read from the item text is deleted and the fields are cleared
RemoveMapping ==
    /\ \E row \in 1..Len(mappings) :
          LET gst_number == BeforeColon(ItemText(mappings, row))
          IN  IF gst_number \in DictKeys(mappings)
                  THEN /\ mappings' = DictDel(mappings, gst_number)
                       /\ settings_mappings' = mappings'
                       /\ gst_edit' = << >>
                       /\ company_name_edit' = << >>
                  ELSE UNCHANGED << mappings, settings_mappings, gst_edit,
                                    company_name_edit >>
    /\ gst_op' = "remove_mapping"
    /\ UnchangedBut("gst")

GstNext ==
    \/ EditMapping
    \/ SaveMapping
    \/ RemoveNothing
    \/ RemoveMapping

GstSpec == GstInit /\ [][GstNext]_vars

\* a key of 15 characters, each a digit or an upper-case ASCII letter
ValidGstKey(key) ==
    /\ Len(key) = 15
    /\ \A k \in 1..Len(key) :
          key[k] \in {"0", "1", "2", "3", "4", "5", "6", "7", "8", "9", "A", "Z"}

\* the GST number or the company name in the fields is empty, or the GST
\* number is not 15 characters of [0-9A-Z]
RejectedFields ==
    \/ strip(gst_edit) = << >>
    \/ strip(company_name_edit) = << >>
    \/ ~ValidGstKey(strip(gst_edit))

\* C21: from an empty mapping on, every key of the mapping is 15 characters
\* of [0-9A-Z] and every value is non-empty, the settings hold the mapping,
\* and a save_mapping on rejected fields changes neither.
C21_MappingStore ==
    /\ [](\A k \in 1..Len(mappings) :
            ValidGstKey(mappings[k].key) /\ mappings[k].value # << >>)
    /\ [](settings_mappings = mappings)
    /\ [][(gst_op' = "save_mapping" /\ RejectedFields)
            => (mappings' = mappings /\ settings_mappings' = settings_mappings)]_vars

\* two mappings were saved, the second from a padded GST number, and the
\* fields now hold a GST number with a lower-case letter that was rejected
C21_Witness ==
    /\ Len(mappings) = 2
    /\ mappings[2].key = Repeat("A", 15)
    /\ gst_op = "save_mapping"
    /\ gst_edit = Repeat("A", 14) \o << "a" >>
    /\ company_name_edit = << "C", "o" >>

\* ------------------------------------------------------ RegexManagerDialog

\* the patterns load_patterns returns when the settings hold none, character
\* by character
Default_gst_number_1 ==
    << "G", "S", "T", "(", "?", ":", "\\", "s", "+", "|", ":", "|", "\\", "s",
       "*", "N", "o", "\\", ".", "?", "\\", "s", "*", "|", "N", "u", "m", "b",
       "e", "r", "\\", "s", "*", ":", "?", ")", "\\", "s", "*", "(", "[", "0",
       "-", "9", "A", "-", "Z", "]", "{", "1", "5", "}", ")" >>

Default_gst_number_2 ==
    << "G", "S", "T", "I", "N", "\\", "s", "*", ":", "?", "\\", "s", "*", "(",
       "[", "0", "-", "9", "A", "-", "Z", "]", "{", "1", "5", "}", ")" >>

Default_invoice_number_1 ==
    << "I", "n", "v", "o", "i", "c", "e", "\\", "s", "+", "(", "?", ":", "N",
       "o", "\\", ".", "?", "|", "N", "u", "m", "b", "e", "r", "|", "#", ")",
       "\\", "s", "*", ":", "?", "\\", "s", "*", "(", "[", "\\", "w", "\\",
       "d", "\\", "-", "/", "]", "+", ")" >>

Default_invoice_number_2 ==
    << "B", "i", "l", "l", "\\", "s", "+", "(", "?", ":", "N", "o", "\\", ".",
       "?", "|", "N", "u", "m", "b", "e", "r", "|", "#", ")", "\\", "s", "*",
       ":", "?", "\\", "s", "*", "(", "[", "\\", "w", "\\", "d", "\\", "-",
       "/", "]", "+", ")" >>

Default_invoice_number_3 ==
    << "(", "?", ":", "I", "n", "v", "o", "i", "c", "e", "|", "B", "i", "l",
       "l", ")", "\\", "s", "*", ":", "?", "\\", "s", "*", "(", "[", "\\", "w",
       "\\", "d", "\\", "-", "/", "]", "+", ")" >>

Default_amount_1 ==
    << "T", "o", "t", "a", "l", "\\", "s", "+", "A", "m", "o", "u", "n", "t",
       "\\", "s", "*", ":", "?", "\\", "s", "*", "(", "?", ":", "R", "s", "\\",
       ".", "?", "|", "I", "N", "R", "|", "u20B9", ")", "?", "\\", "s", "*",
       "(", "[", "\\", "d", ",", "]", "+", "\\", ".", "?", "\\", "d", "*", ")" >>

Default_amount_2 ==
    << "G", "r", "a", "n", "d", "\\", "s", "+", "T", "o", "t", "a", "l", "\\",
       "s", "*", ":", "?", "\\", "s", "*", "(", "?", ":", "R", "s", "\\", ".",
       "?", "|", "I", "N", "R", "|", "u20B9", ")", "?", "\\", "s", "*", "(",
       "[", "\\", "d", ",", "]", "+", "\\", ".", "?", "\\", "d", "*", ")" >>

Default_amount_3 ==
    << "A", "m", "o", "u", "n", "t", "\\", "s", "+", "(", "?", ":", "D", "u",
       "e", "|", "P", "a", "y", "a", "b", "l", "e", "|", "T", "o", "t", "a",
       "l", ")", "\\", "s", "*", ":", "?", "\\", "s", "*", "(", "?", ":", "R",
       "s", "\\", ".", "?", "|", "I", "N", "R", "|", "u20B9", ")", "?", "\\",
       "s", "*", "(", "[", "\\", "d", ",", "]", "+", "\\", ".", "?", "\\", "d",
       "*", ")" >>

Default_amount_4 ==
    << "(", "?", ":", "R", "s", "\\", ".", "?", "|", "I", "N", "R", "|",
       "u20B9", ")", "\\", "s", "*", "(", "[", "\\", "d", ",", "]", "+", "\\",
       ".", "?", "\\", "d", "*", ")" >>

Default_company_name_1 ==
    << "(", "?", ":", "C", "o", "m", "p", "a", "n", "y", "|", "B", "u", "s",
       "i", "n", "e", "s", "s", "|", "V", "e", "n", "d", "o", "r", "|", "S",
       "e", "l", "l", "e", "r", "|", "F", "r", "o", "m", ")", "[", "\\", "s",
       ":", "]", "+", "(", "[", "^", "\\", "n", "]", "+", ")" >>

Default_company_name_2 ==
    << "(", "?", ":", "^", "|", "\\", "n", ")", "(", "[", "A", "-", "Z", "]",
       "[", "A", "-", "Z", "a", "-", "z", "\\", "s", "]", "+", "(", "?", ":",
       "L", "t", "d", "|", "L", "i", "m", "i", "t", "e", "d", "|", "I", "n",
       "c", "|", "L", "L", "C", "|", "L", "L", "P", "|", "P", "v", "t", "|",
       "C", "o", "r", "p", "o", "r", "a", "t", "i", "o", "n", "|", "C", "o",
       "r", "p", "|", "\\", "&", "\\", "s", "*", "C", "o", ")", "\\", ".", "?",
       ")", "(", "?", ":", "\\", "n", "|", "$", ")" >>

\* the default pattern structure, in dict order
DefaultCategories ==
    << [key |-> "gst_number",
        value |-> << Default_gst_number_1, Default_gst_number_2 >>],
       [key |-> "invoice_number",
        value |-> << Default_invoice_number_1, Default_invoice_number_2, Default_invoice_number_3 >>],
       [key |-> "amount",
        value |-> << Default_amount_1, Default_amount_2, Default_amount_3, Default_amount_4 >>],
       [key |-> "company_name",
        value |-> << Default_company_name_1, Default_company_name_2 >>] >>

\* the handlers that change the patterns in one session of the dialog
MaxDialogOps == 1

\* the texts typed into the regex editor: without parentheses, with a group,
\* with escaped parentheses, with a non-capturing group
RegexTexts ==
    {<< >>, << "a" >>, << "(", "a", ")" >>,
     << BACKSLASH, "(", "a", BACKSLASH, ")" >>, << "(", "?", ":", "a", ")" >>}

\* the names typed into the New Category box
CategoryNames == {"", "po_number", "amount"}

\* the test that decides whether a pattern is wrapped in parentheses:
\* "(" in pattern and re.search(r"\([^)]*\)", pattern), which is some "("
\* with a ")" after it
has_capture_check(pattern) ==
    \E a \in 1..Len(pattern) : \E b \in 1..Len(pattern) :
        a < b /\ pattern[a] = "(" /\ pattern[b] = ")"

\* if "(" not in pattern or not re.search(...): pattern = f"({pattern})"
with_capture_group(pattern) ==
    IF has_capture_check(pattern) THEN pattern
    ELSE << "(" >> \o pattern \o << ")" >>

\* the dialog is opened on settings without patterns: the defaults are
\* loaded and the first category is shown
RxInit ==
    /\ IdleBut("rx")
    /\ pattern_categories = DefaultCategories
    /\ settings_patterns = << >>
    /\ category_combo = DefaultCategories[1].key
    /\ patterns_row = -1
    /\ regex_edit = << >>
    /\ plain_text_edit = << >>
    /\ generic_matching_cb = TRUE
    /\ full_match_cb = FALSE
    /\ rx_ops = 0

\* the patterns of the category shown in the combo box
ShownPatterns ==
    IF category_combo \in DictKeys(pattern_categories)
        THEN DictGet(pattern_categories, category_combo) ELSE << >>

\* the user types a pattern into the regex editor
TypeRegex ==
    /\ regex_edit' \in RegexTexts
    /\ UNCHANGED << pattern_categories, settings_patterns, category_combo,
                    patterns_row, plain_text_edit, generic_matching_cb,
                    full_match_cb, rx_ops >>
    /\ UnchangedBut("rx")

\* the user picks another category: load_category_patterns fills the list
\* again and no row is current
SelectCategory ==
    /\ \E name \in DictKeys(pattern_categories) \ {category_combo} :
          category_combo' = name
    /\ patterns_row' = -1
    /\ UNCHANGED << pattern_categories, settings_patterns, regex_edit,
                    plain_text_edit, generic_matching_cb, full_match_cb, rx_ops >>
    /\ UnchangedBut("rx")

\* the user picks a row: load_pattern shows its pattern and clears the plain
\* text
SelectRow ==
    /\ \E row \in 0..(Len(ShownPatterns) - 1) :
          /\ row # patterns_row
          /\ patterns_row' = row
          /\ regex_edit' = ShownPatterns[row + 1]
    /\ plain_text_edit' = << >>
    /\ UNCHANGED << pattern_categories, settings_patterns, category_combo,
                    generic_matching_cb, full_match_cb, rx_ops >>
    /\ UnchangedBut("rx")

\* add_category(): a new non-empty name gets an empty list, becomes the
\* current category and the patterns are saved
AddCategory ==
    /\ rx_ops < MaxDialogOps
    /\ \E name \in CategoryNames :
          IF name # "" /\ name \notin DictKeys(pattern_categories)
              THEN /\ pattern_categories' = DictSet(pattern_categories, name, << >>)
                   /\ category_combo' = name
                   /\ patterns_row' = -1
                   /\ settings_patterns' = pattern_categories'
              ELSE UNCHANGED << pattern_categories, category_combo, patterns_row,
                                settings_patterns >>
    /\ rx_ops' = rx_ops + 1
    /\ UNCHANGED << regex_edit, plain_text_edit, generic_matching_cb, full_match_cb >>
    /\ UnchangedBut("rx")

\* remove_category() answered with Yes: the current category is deleted and
\* saved; the combo box shows one of the categories left
RemoveCategory ==
    /\ rx_ops < MaxDialogOps
    /\ category_combo \in DictKeys(pattern_categories)
    /\ pattern_categories' = DictDel(pattern_categories, category_combo)
    /\ settings_patterns' = pattern_categories'
    /\ IF pattern_categories' = << >> THEN category_combo' = ""
       ELSE category_combo' \in DictKeys(pattern_categories')
    /\ patterns_row' = -1
    /\ rx_ops' = rx_ops + 1
    /\ UNCHANGED << regex_edit, plain_text_edit, generic_matching_cb, full_match_cb >>
    /\ UnchangedBut("rx")

\* add_pattern(): the text of the regex editor, when it is not empty, is
\* appended to the current category as it is and saved
AddPattern ==
    /\ rx_ops < MaxDialogOps
    /\ category_combo # ""
    /\ IF regex_edit # << >>
           THEN /\ pattern_categories' =
                       DictSet(pattern_categories, category_combo,
                               Append(ShownPatterns, regex_edit))
                /\ settings_patterns' = pattern_categories'
           ELSE UNCHANGED << pattern_categories, settings_patterns >>
    /\ rx_ops' = rx_ops + 1
    /\ UNCHANGED << category_combo, patterns_row, regex_edit, plain_text_edit,
                    generic_matching_cb, full_match_cb >>
    /\ UnchangedBut("rx")

\* remove_pattern(): the current row is deleted from the current category
\* and saved; the list makes a neighbouring row current, or none
RemovePattern ==
    /\ rx_ops < MaxDialogOps
    /\ patterns_row >= 0
    /\ patterns_row < Len(ShownPatterns)
    /\ LET left == [k \in 1..(Len(ShownPatterns) - 1) |->
                       IF k <= patterns_row THEN ShownPatterns[k]
                       ELSE ShownPatterns[k + 1]]
       IN  /\ pattern_categories' = DictSet(pattern_categories, category_combo, left)
           /\ settings_patterns' = pattern_categories'
           /\ \E row \in {patterns_row, patterns_row - 1} :
                 /\ row < Len(left)
                 /\ patterns_row' = row
                 /\ regex_edit' = IF row >= 0 THEN left[row + 1] ELSE regex_edit
    /\ rx_ops' = rx_ops + 1
    /\ UNCHANGED << category_combo, plain_text_edit, generic_matching_cb,
                    full_match_cb >>
    /\ UnchangedBut("rx")

\* save_pattern(): the text of the regex editor, wrapped in parentheses when
\* the test finds no group, replaces the current row or is appended to the
\* current category, and is saved
SavePattern ==
    /\ rx_ops < MaxDialogOps
    /\ regex_edit # << >>
    /\ LET pattern == with_capture_group(regex_edit)
       IN  /\ regex_edit' = pattern
           /\ IF category_combo = ""
                  THEN UNCHANGED << pattern_categories, settings_patterns >>
                  ELSE /\ pattern_categories' =
                              DictSet(pattern_categories, category_combo,
                                      IF patterns_row >= 0
                                          THEN [ShownPatterns EXCEPT
                                                   ![patterns_row + 1] = pattern]
                                          ELSE Append(ShownPatterns, pattern))
                       /\ settings_patterns' = pattern_categories'
    /\ rx_ops' = rx_ops + 1
    /\ UNCHANGED << category_combo, patterns_row, plain_text_edit,
                    generic_matching_cb, full_match_cb >>
    /\ UnchangedBut("rx")

RxNext ==
    \/ TypeRegex
    \/ SelectCategory
    \/ SelectRow
    \/ AddCategory
    \/ RemoveCategory
    \/ AddPattern
    \/ RemovePattern
    \/ SavePattern

RegexManagerSpec == RxInit /\ [][RxNext]_vars

\* the character at position k is not escaped: an even number of backslashes
\* stands right before it
Unescaped(s, k) ==
    LET others == {x \in 1..(k - 1) : s[x] # BACKSLASH}
        last == IF others = {} THEN 0 ELSE CHOOSE x \in others : \A y \in others : y <= x
    IN  (k - 1 - last) % 2 = 0

\* position k is inside a character class: a "[" before it is not closed
InClass(s, k) ==
    \E a \in 1..(k - 1) :
        /\ s[a] = "[" /\ Unescaped(s, a)
        /\ \A b \in (a + 1)..(k - 1) : ~(s[b] = "]" /\ Unescaped(s, b))

\* the positions where a capturing group opens: the "(" that are not
\* escaped, not inside a character class and not followed by "?" (a named
\* group (?P<...>...) apart)
CapturingGroups(s) ==
    {k \in 1..Len(s) :
        /\ s[k] = "("
        /\ Unescaped(s, k)
        /\ ~InClass(s, k)
        /\ (k < Len(s) /\ s[k + 1] = "?") => (k + 1 < Len(s) /\ s[k + 2] = "P")}

HasCapturingGroup(pattern) == CapturingGroups(pattern) # {}

\* every pattern of every category of the dict has a capturing group
AllCapturing(d) ==
    \A c \in 1..Len(d) : \A k \in 1..Len(d[c].value) : HasCapturingGroup(d[c].value[k])

\* C22: from the default patterns on, every pattern held in
\* pattern_categories and every pattern persisted by save_patterns contains
\* at least one capturing group.
C22_CaptureConvention == AllCapturing(pattern_categories) /\ AllCapturing(settings_patterns)

\* ------------------------------- RegexManagerDialog: plain text to regex

\* the longest plain text typed into the converter box
MaxPlainLen == 3

\* the characters of the plain texts: a letter, a digit and the parentheses
PlainChars == {"a", "1", "(", ")"}

PlainTexts == StringsUpTo(PlainChars, MaxPlainLen)

\* convert_to_regex: nothing for an empty text; otherwise the synthesized
\* pattern, wrapped when the test finds no "(" with a ")" after it, is put
\* into the regex editor
convert_to_regex(text, generic, full, old) ==
    IF text = << >> THEN old
    ELSE with_capture_group(string_to_regex(RawSpecialChars, text, generic, full))

\* update_regex_preview: if self.plain_text_edit.text(): self.convert_to_regex()
update_regex_preview(text, generic, full, old) ==
    IF text # << >> THEN convert_to_regex(text, generic, full, old) ELSE old

\* the user edits the plain text: textChanged calls update_regex_preview
TypePlainText ==
    /\ \E text \in PlainTexts \ {plain_text_edit} :
          /\ plain_text_edit' = text
          /\ regex_edit' = update_regex_preview(text, generic_matching_cb,
                                                full_match_cb, regex_edit)
    /\ UNCHANGED << pattern_categories, settings_patterns, category_combo,
                    patterns_row, generic_matching_cb, full_match_cb, rx_ops >>
    /\ UnchangedBut("rx")

\* the user ticks or unticks "generic matching": stateChanged calls
\* update_regex_preview
ToggleGeneric ==
    /\ generic_matching_cb' = ~generic_matching_cb
    /\ regex_edit' = update_regex_preview(plain_text_edit, ~generic_matching_cb,
                                          full_match_cb, regex_edit)
    /\ UNCHANGED << pattern_categories, settings_patterns, category_combo,
                    patterns_row, plain_text_edit, full_match_cb, rx_ops >>
    /\ UnchangedBut("rx")

\* the user ticks or unticks "full match": stateChanged calls
\* update_regex_preview
ToggleFull ==
    /\ full_match_cb' = ~full_match_cb
    /\ regex_edit' = update_regex_preview(plain_text_edit, generic_matching_cb,
                                          ~full_match_cb, regex_edit)
    /\ UNCHANGED << pattern_categories, settings_patterns, category_combo,
                    patterns_row, plain_text_edit, generic_matching_cb, rx_ops >>
    /\ UnchangedBut("rx")

\* the user clicks Convert
ClickConvert ==
    /\ regex_edit' = convert_to_regex(plain_text_edit, generic_matching_cb,
                                      full_match_cb, regex_edit)
    /\ UNCHANGED << pattern_categories, settings_patterns, category_combo,
                    patterns_row, plain_text_edit, generic_matching_cb,
                    full_match_cb, rx_ops >>
    /\ UnchangedBut("rx")

ConvertNext ==
    \/ TypePlainText
    \/ ToggleGeneric
    \/ ToggleFull
    \/ ClickConvert
    \/ TypeRegex

ConvertSpec == RxInit /\ [][ConvertNext]_vars

\* a handler that ran convert_to_regex on a non-empty plain text
Converts ==
    /\ TypePlainText \/ ToggleGeneric \/ ToggleFull \/ ClickConvert
    /\ plain_text_edit' # << >>

\* C23: for every non-empty plain text and every flag combination, the pattern
\* that convert_to_regex places in the regex editor contains at least one
\* unescaped capturing group.
C23_ConvertedHasGroup == [][Converts => HasCapturingGroup(regex_edit')]_vars

\* ------------------------------------------ OrganizeWorker, organize_pdfs

\* the OrganizeWorker threads one session of the main window starts
MaxWorkers == 2

\* the longest PDF list
MaxFiles == 2

\* os.path.join(folder, filename)
Path(folder, filename) == [folder |-> folder, filename |-> filename]

\* os.path.exists(path)
Exists(d, path) == \E e \in d : e.path = path

\* what is stored at an existing path
Content(d, path) == (CHOOSE e \in d : e.path = path).content

\* the disk after a file with this content was written at path
Written(d, path, content) ==
    {e \in d : e.path # path} \cup {[path |-> path, content |-> content]}

\* os.path.splitext(filename): the extension starts at the last dot that has
\* a character other than a dot before it
splitext(filename) ==
    LET dots == {k \in 1..Len(filename) :
                    /\ filename[k] = "."
                    /\ \E j \in 1..(k - 1) : filename[j] # "."}
    IN IF dots = {} THEN [name |-> filename, ext |-> << >>]
       ELSE LET k == CHOOSE a \in dots : \A b \in dots : b <= a
            IN [name |-> SubSeq(filename, 1, k - 1),
                ext |-> SubSeq(filename, k, Len(filename))]

\* f"{name}_{counter}{ext}" joined to the folder
Renamed(folder, filename, counter) ==
    Path(folder, splitext(filename).name \o << "_" >> \o IntStr(counter)
                    \o splitext(filename).ext)

\* auto_rename that returns the first candidate whether or not it exists
auto_rename_first(d, folder, filename) == Renamed(folder, filename, 1)

\* auto_rename: counter goes up from 1 until the path does not exist; the
\* loop ends by counter = (number of existing paths) + 1 at the latest
auto_rename(d, folder, filename) ==
    LET free == {k \in 1..(Cardinality(d) + 1) : ~Exists(d, Renamed(folder, filename, k))}
    IN Renamed(folder, filename, CHOOSE k \in free : \A j \in free : k <= j)

\* the file names of the model
NameA == << "a", ".", "p" >>
NameB == << "b", ".", "p" >>

\* current_directory, the destination of organize_pdfs
DestFolder == "D"

\* the paths that can be listed in the main window: two files of the same
\* name in different folders, a file that cannot be read, a file deleted
\* since it was listed, a file of the destination folder itself
SourcePaths ==
    {Path("S", NameA), Path("T", NameA), Path("S", NameB),
     Path("S", << "c", ".", "p" >>), Path(DestFolder, NameA)}

\* the content of a file that exists and cannot be opened for reading
Locked == "locked"

\* the source folders as they are on the disk
SourceDisk ==
    {[path |-> Path("S", NameA), content |-> "S/a"],
     [path |-> Path("T", NameA), content |-> "T/a"],
     [path |-> Path("S", NameB), content |-> Locked]}

\* what the destination folder can hold before the first organize_pdfs
DestDisks ==
    {{},
     {[path |-> Path(DestFolder, NameA), content |-> "D/a"]},
     {[path |-> Path(DestFolder, NameA), content |-> "D/a"],
      [path |-> Renamed(DestFolder, NameA, 1), content |-> "D/a_1"]}}

\* the entries of the conflict combo box of the settings dialog
ConflictModes == {"Prompt", "Overwrite", "Auto-Rename"}

\* the lists of distinct paths of at most n entries
ListsUpTo(paths, n) ==
    {l \in UNION {[1..k -> paths] : k \in 0..n} :
        \A a \in DOMAIN l : \A b \in DOMAIN l : a # b => l[a] # l[b]}

\* the main window with PDFs listed and no worker started
OrgInit ==
    /\ IdleBut("org")
    /\ \E dest \in DestDisks : disk = SourceDisk \cup dest
    /\ pdf_list \in ListsUpTo(SourcePaths, MaxFiles)
    /\ settings_conflict_mode \in ConflictModes
    /\ workers = << >>
    /\ copy_log = << >>

\* OrganizeWorker.__init__ and the locals of run before the loop
NewWorker(file_items, dest_folder, conflict_mode) ==
    [file_items |-> file_items, dest_folder |-> dest_folder,
     conflict_mode |-> conflict_mode, pc |-> "loop", pos |-> 0,
     dest_file |-> Path("", << >>), conflict |-> FALSE, count |-> 0,
     finished |-> << >>, errors |-> << >>, outcomes |-> << >>]

\* the worker has not left run()
Running(W) == W.pc \in {"loop", "copy"}

\* organize_pdfs: a worker is created on the listed paths, the current
\* directory and the conflict setting, and started
OrganizePdfs ==
    /\ Len(workers) < MaxWorkers
    /\ workers' = Append(workers,
                         NewWorker(pdf_list, DestFolder, settings_conflict_mode))
    /\ UNCHANGED << disk, pdf_list, settings_conflict_mode, copy_log >>
    /\ UnchangedBut("org")

\* the settings dialog is accepted with another conflict mode
ChangeConflictMode ==
    /\ \E mode \in ConflictModes \ {settings_conflict_mode} :
          settings_conflict_mode' = mode
    /\ UNCHANGED << disk, pdf_list, workers, copy_log >>
    /\ UnchangedBut("org")

\* continue: the entry is left without a copy
Skip(W) ==
    [W EXCEPT !.pos = W.pos + 1, !.outcomes = Append(W.outcomes, "skipped")]

\* one entry of file_items from the top of the loop body to the line before
\* shutil.copy
Resolve(W, d) ==
    LET source == W.file_items[W.pos + 1]
        filename == source.filename
        dest_file == Path(W.dest_folder, filename)
    IN IF ~Exists(d, source) THEN Skip(W)
       ELSE IF source = dest_file THEN Skip(W)
       ELSE IF Exists(d, dest_file)
           THEN IF W.conflict_mode = "Overwrite"
                   THEN [W EXCEPT !.pc = "copy", !.dest_file = dest_file,
                                  !.conflict = TRUE]
                ELSE IF W.conflict_mode = "Auto-Rename"
                   THEN [W EXCEPT !.pc = "copy", !.conflict = TRUE,
                                  !.dest_file = auto_rename(d, W.dest_folder, filename)]
                ELSE Skip(W)
       ELSE [W EXCEPT !.pc = "copy", !.dest_file = dest_file, !.conflict = FALSE]

\* for source in self.file_items: the checks and the conflict policy
WorkerResolve(w) ==
    /\ workers[w].pc = "loop"
    /\ workers[w].pos < Len(workers[w].file_items)
    /\ workers' = [workers EXCEPT ![w] = Resolve(workers[w], disk)]
    /\ UNCHANGED << disk, pdf_list, settings_conflict_mode, copy_log >>
    /\ UnchangedBut("org")

\* shutil.copy raises when the source cannot be read
CopyRaises(d, source) == ~Exists(d, source) \/ Content(d, source) = Locked

\* an except clause that leaves the loop
OnCopyErrorStop(W) ==
    [W EXCEPT !.pc = "loop", !.pos = Len(W.file_items),
              !.errors = Append(W.errors, W.file_items[W.pos + 1])]

\* except Exception: self.error.emit(error_msg), then the next entry
OnCopyError(W) ==
    [W EXCEPT !.pc = "loop", !.pos = W.pos + 1,
              !.errors = Append(W.errors, W.file_items[W.pos + 1]),
              !.outcomes = Append(W.outcomes, "failed")]

\* shutil.copy returned: count += 1
OnCopied(W) ==
    [W EXCEPT !.pc = "loop", !.pos = W.pos + 1, !.count = W.count + 1,
              !.outcomes = Append(W.outcomes, "copied")]

\* shutil.copy(source, dest_file)
WorkerCopy(w) ==
    LET W == workers[w]
        source == W.file_items[W.pos + 1]
    IN /\ W.pc = "copy"
       /\ IF CopyRaises(disk, source)
             THEN /\ workers' = [workers EXCEPT ![w] = OnCopyError(W)]
                  /\ UNCHANGED << disk, copy_log >>
             ELSE /\ workers' = [workers EXCEPT ![w] = OnCopied(W)]
                  /\ disk' = Written(disk, W.dest_file, Content(disk, source))
                  /\ copy_log' = Append(copy_log,
                        [worker |-> w, source |-> source, dest_file |-> W.dest_file,
                         mode |-> W.conflict_mode, conflict |-> W.conflict,
                         replaced |-> Exists(disk, W.dest_file)])
       /\ UNCHANGED << pdf_list, settings_conflict_mode >>
       /\ UnchangedBut("org")

\* the loop is over: self.finished.emit(count)
WorkerFinish(w) ==
    /\ workers[w].pc = "loop"
    /\ workers[w].pos = Len(workers[w].file_items)
    /\ workers' = [workers EXCEPT ![w].pc = "emitted",
                                  ![w].finished = Append(@, workers[w].count)]
    /\ UNCHANGED << disk, pdf_list, settings_conflict_mode, copy_log >>
    /\ UnchangedBut("org")

\* on_organize_finished, run by the main thread for the emitted signal:
\* the PDF list is cleared
OnOrganizeFinished(w) ==
    /\ workers[w].pc = "emitted"
    /\ workers' = [workers EXCEPT ![w].pc = "done"]
    /\ pdf_list' = << >>
    /\ UNCHANGED << disk, settings_conflict_mode, copy_log >>
    /\ UnchangedBut("org")

OrgNext ==
    \/ OrganizePdfs
    \/ ChangeConflictMode
    \/ \E w \in DOMAIN workers : WorkerResolve(w)
    \/ \E w \in DOMAIN workers : WorkerCopy(w)
    \/ \E w \in DOMAIN workers : WorkerFinish(w)
    \/ \E w \in DOMAIN workers : OnOrganizeFinished(w)

OrganizeSpec == OrgInit /\ [][OrgNext]_vars

\* the workers that are running
RunningWorkers == {w \in DOMAIN workers : Running(workers[w])}

\* C24: at most one OrganizeWorker is running at any time: organize_pdfs
\* never starts a second worker while a started one has not emitted finished.
C24_SingleWorker == Cardinality(RunningWorkers) <= 1

\* one worker constructed by organize_pdfs on the listed paths and started,
\* with no other worker in the session
RunInit ==
    /\ IdleBut("org")
    /\ \E dest \in DestDisks : disk = SourceDisk \cup dest
    /\ pdf_list \in ListsUpTo(SourcePaths, MaxFiles)
    /\ settings_conflict_mode \in ConflictModes
    /\ workers = << NewWorker(pdf_list, DestFolder, settings_conflict_mode) >>
    /\ copy_log = << >>

RunNext ==
    \/ WorkerResolve(1)
    \/ WorkerCopy(1)
    \/ WorkerFinish(1)
    \/ OnOrganizeFinished(1)

RunSpec == RunInit /\ [][RunNext]_vars

\* the entries the worker has attempted, by outcome
Attempted(W, outcome) == {k \in DOMAIN W.outcomes : W.outcomes[k] = outcome}

\* the shutil.copy calls of worker w that returned
CopiesOf(w) == {k \in DOMAIN copy_log : copy_log[k].worker = w}

\* the sources of the entries whose copy failed, in the order of file_items
FailedSources(W) ==
    LET failed == Attempted(W, "failed")
        nth(n) == CHOOSE k \in failed : Cardinality({j \in failed : j < k}) = n - 1
    IN [n \in 1..Cardinality(failed) |-> W.file_items[nth(n)]]

\* the state of a worker that has left run(): finished was emitted once,
\* every entry was attempted, the count is that of the copies made
Completed(w) ==
    LET W == workers[w]
    IN /\ Len(W.finished) = 1
       /\ Len(W.outcomes) = Len(W.file_items)
       /\ W.finished[1] = Cardinality(CopiesOf(w))
       /\ W.finished[1] = Cardinality(Attempted(W, "copied"))
       /\ W.finished[1] <= Len(W.file_items)

C25_Invariant ==
    \A w \in DOMAIN workers :
        /\ Running(workers[w]) => workers[w].finished = << >>
        /\ ~Running(workers[w]) => Completed(w)
        /\ workers[w].errors = FailedSources(workers[w])

\* after finished was emitted the worker emits nothing and copies nothing
C25_Step ==
    \A w \in DOMAIN workers :
        ~Running(workers[w]) =>
            /\ workers'[w].finished = workers[w].finished
            /\ workers'[w].errors = workers[w].errors
            /\ CopiesOf(w)' = CopiesOf(w)

\* C25: every run() emits finished exactly once, as its last action and only
\* after every entry of file_items was attempted; the emitted count is the
\* number of files copied, at most len(file_items); a failed copy emits one
\* error for that file and the remaining files are still processed.
C25_WorkerCompletion == []C25_Invariant /\ [][C25_Step]_vars

\* a run of two entries is over: the copy of the first failed with one error
\* signal, the second was copied, and finished carried the count 1
C25_Witness ==
    \E w \in DOMAIN workers :
        /\ workers[w].pc = "done"
        /\ workers[w].outcomes = << "failed", "copied" >>
        /\ Len(workers[w].errors) = 1
        /\ workers[w].finished = << 1 >>

\* the copy went to the name_k.ext of the smallest k >= 1 not taken
ToSmallestFree(e) ==
    \E k \in 1..(Cardinality(disk) + 1) :
        /\ e.dest_file = Renamed(DestFolder, e.source.filename, k)
        /\ \A j \in 1..(k - 1) : Exists(disk, Renamed(DestFolder, e.source.filename, j))

\* C26: an existing destination file is replaced only under "Overwrite";
\* under "Auto-Rename" a conflicting copy goes to the name_k.ext of the
\* smallest k >= 1 that does not exist and replaces nothing; under any other
\* mode a conflicting file is not copied; a source that does not exist or is
\* the destination path itself is not copied.
C26_ConflictPolicy ==
    \A n \in DOMAIN copy_log :
        LET e == copy_log[n]
        IN /\ e.replaced => e.mode = "Overwrite"
           /\ e.conflict => e.mode \in {"Overwrite", "Auto-Rename"}
           /\ (e.conflict /\ e.mode = "Auto-Rename") =>
                  ToSmallestFree(e) /\ ~e.replaced
           /\ e.source # e.dest_file
           /\ e.source \in {x.path : x \in SourceDisk}

\* ----------------------- DirectoryFilterProxyModel and the directory view

\* the longest text typed into the search box
MaxFilterLen == 2

\* a path is the sequence of its components below "/"; a component is a
\* sequence of characters
DirR == << << "r" >> >>
DirD == DirR \o << << "d" >> >>
DirE == DirD \o << << "e" >> >>
DirX == << << "x" >> >>

\* the files and directories on the disk below "/"
AllItems ==
    {[path |-> << >>, is_dir |-> TRUE],
     [path |-> DirR, is_dir |-> TRUE],
     [path |-> DirR \o << << "A", "b" >> >>, is_dir |-> FALSE],
     [path |-> DirD, is_dir |-> TRUE],
     [path |-> DirD \o << << "B" >> >>, is_dir |-> FALSE],
     [path |-> DirE, is_dir |-> TRUE],
     [path |-> DirE \o << << "a", "B" >> >>, is_dir |-> FALSE],
     [path |-> DirX, is_dir |-> TRUE]}

\* settings["default_directory"], normalised
main_dir == DirR

\* the characters typed into the search box
FilterChars == {"a", "B", " "}

FilterTexts == StringsUpTo(FilterChars, MaxFilterLen)

\* one character of str.lower()
LowerChar(c) == IF c = "A" THEN "a" ELSE IF c = "B" THEN "b" ELSE c

\* str.lower()
lower(s) == [k \in 1..Len(s) |-> LowerChar(s[k])]

\* sub in s, for two strings
Contains(sub, s) ==
    \E k \in 0..(Len(s) - Len(sub)) : SubSeq(s, k + 1, k + Len(sub)) = sub

\* os.path.basename(path)
basename(path) == IF path = << >> THEN << >> ELSE path[Len(path)]

\* os.path.commonpath([a, b]): the longest common run of leading components
commonpath(a, b) ==
    LET same == {n \in 0..Len(a) : n <= Len(b) /\ SubSeq(a, 1, n) = SubSeq(b, 1, n)}
    IN SubSeq(a, 1, CHOOSE n \in same : \A m \in same : m <= n)

\* the rows of the source model below a parent index
Children(items, parent) ==
    {it \in items : Len(it.path) = Len(parent) + 1
                    /\ SubSeq(it.path, 1, Len(parent)) = parent}

\* hasAcceptedChildren that looks at the rows of the directory only
hasAcceptedChildrenShallow(items, parent, filter_text) ==
    \E child \in Children(items, parent) :
        Contains(filter_text, lower(basename(child.path)))

RECURSIVE hasAcceptedChildren(_, _, _)
\* hasAcceptedChildren: some row below the directory has the filter text in
\* its lower-cased name, or is a directory for which the same holds
hasAcceptedChildren(items, parent, filter_text) ==
    \E child \in Children(items, parent) :
        \/ Contains(filter_text, lower(basename(child.path)))
        \/ /\ child.is_dir
           /\ hasAcceptedChildren(items, child.path, filter_text)

\* filterAcceptsRow for the row of an item of the source model
filterAcceptsRow(items, item, root, pattern) ==
    LET file_path == item.path
        filter_text == lower(pattern)
        base_name == lower(basename(file_path))
    IN IF commonpath(file_path, root) # root THEN FALSE
       ELSE IF file_path = root THEN TRUE
       ELSE IF filter_text = << >> THEN TRUE
       ELSE IF Contains(filter_text, base_name) THEN TRUE
       ELSE IF item.is_dir /\ hasAcceptedChildren(items, file_path, filter_text)
           THEN TRUE
       ELSE FALSE

\* invalidateFilter: every row of the source model is put to filterAcceptsRow
Filtered(items, root, pattern) ==
    {it.path : it \in {x \in items : filterAcceptsRow(items, x, root, pattern)}}

\* QFileSystemModel().setRootPath(directory): a new model holds the
\* directory and the directories above it; the rest is loaded later
setup_directory_model(directory) ==
    {it \in AllItems : \E n \in 0..Len(directory) : it.path = SubSeq(directory, 1, n)}

\* the main window after __init__
DirInit ==
    /\ IdleBut("dir")
    /\ current_directory = main_dir
    /\ history = << >>
    /\ back_btn = FALSE
    /\ source_items = setup_directory_model(main_dir)
    /\ root_path = main_dir
    /\ filter_pattern = << >>
    /\ accepted = Filtered(source_items, root_path, filter_pattern)
    /\ nav_op = "open"

\* the file system model loads one more entry of a directory it holds
LoadItem ==
    /\ \E it \in AllItems \ source_items :
          /\ it.path # << >>
          /\ \E parent \in source_items :
                parent.is_dir /\ parent.path = SubSeq(it.path, 1, Len(it.path) - 1)
          /\ source_items' = source_items \cup {it}
    /\ accepted' = Filtered(source_items', root_path, filter_pattern)
    /\ nav_op' = "load"
    /\ UNCHANGED << current_directory, history, back_btn, root_path, filter_pattern >>
    /\ UnchangedBut("dir")

\* filter_directory and apply_filter: a blank text clears the filter, any
\* other text becomes the pattern as typed
FilterDirectory ==
    /\ \E text \in FilterTexts :
          filter_pattern' = IF strip(text) # << >> THEN text ELSE << >>
    /\ accepted' = Filtered(source_items, root_path, filter_pattern')
    /\ nav_op' = "filter"
    /\ UNCHANGED << source_items, current_directory, history, back_btn, root_path >>
    /\ UnchangedBut("dir")

\* go_back that takes the oldest entry of the history
PopOldest(h) == [top |-> h[1], rest |-> SubSeq(h, 2, Len(h))]

\* self.history.pop()
Pop(h) == [top |-> h[Len(h)], rest |-> SubSeq(h, 1, Len(h) - 1)]

\* change_destination on a directory shown below the root of the view:
\* the current directory goes on the history and the view is refreshed
ChangeDestination ==
    /\ \E it \in source_items :
          /\ it.is_dir
          /\ it.path # root_path
          /\ commonpath(it.path, root_path) = root_path
          /\ history' = Append(history, current_directory)
          /\ current_directory' = it.path
    /\ source_items' = setup_directory_model(current_directory')
    /\ root_path' = current_directory'
    /\ accepted' = Filtered(source_items', root_path', filter_pattern)
    /\ back_btn' = TRUE
    /\ nav_op' = "change_destination"
    /\ UNCHANGED filter_pattern
    /\ UnchangedBut("dir")

\* change_destination on a file: the file is opened, nothing else
OpenFile ==
    /\ \E it \in source_items :
          /\ ~it.is_dir
          /\ commonpath(it.path, root_path) = root_path
    /\ nav_op' = "open_file"
    /\ UNCHANGED << source_items, current_directory, history, back_btn,
                    root_path, filter_pattern, accepted >>
    /\ UnchangedBut("dir")

\* go_back with a history
GoBack ==
    /\ history # << >>
    /\ current_directory' = Pop(history).top
    /\ history' = Pop(history).rest
    /\ source_items' = setup_directory_model(current_directory')
    /\ root_path' = current_directory'
    /\ accepted' = Filtered(source_items', root_path', filter_pattern)
    /\ back_btn' = IF history' = << >> THEN FALSE ELSE back_btn
    /\ nav_op' = "go_back"
    /\ UNCHANGED filter_pattern
    /\ UnchangedBut("dir")

\* go_back without a history
GoBackEmpty ==
    /\ history = << >>
    /\ nav_op' = "go_back_empty"
    /\ UNCHANGED << source_items, current_directory, history, back_btn,
                    root_path, filter_pattern, accepted >>
    /\ UnchangedBut("dir")

DirNext ==
    \/ LoadItem
    \/ FilterDirectory
    \/ ChangeDestination
    \/ OpenFile
    \/ GoBack
    \/ GoBackEmpty

DirectorySpec == DirInit /\ [][DirNext]_vars

\* one path is the other or lies below it
Under(path, ancestor) ==
    Len(ancestor) <= Len(path) /\ SubSeq(path, 1, Len(ancestor)) = ancestor

\* the name has the text in it, whatever the case of the letters
NameHas(path, text) == Contains(lower(text), lower(basename(path)))

\* the rows of the source model at any depth below a path
Descendants(path) ==
    {it \in source_items : it.path # path /\ Under(it.path, path)}

\* the acceptance as the claim states it
Acceptable(item) ==
    /\ Under(item.path, root_path)
    /\ \/ item.path = root_path
       \/ filter_pattern = << >>
       \/ NameHas(item.path, filter_pattern)
       \/ /\ item.is_dir
          /\ \E it \in Descendants(item.path) : NameHas(it.path, filter_pattern)

\* C27: filterAcceptsRow accepts an item exactly when its path is under
\* root_path and it is the root, or the filter text is empty, or its base name
\* contains the filter text whatever the case, or it is a directory with a
\* descendant at any depth whose base name does; so with an accepted item
\* every directory between the root and the item is accepted.
C27_FilterAcceptance ==
    /\ \A item \in source_items : item.path \in accepted <=> Acceptable(item)
    /\ \A path \in accepted :
          \A n \in Len(root_path)..Len(path) : SubSeq(path, 1, n) \in accepted

\* a directory is accepted for a name two levels below it that differs from
\* the filter text in the case of its letters only
C27_Witness ==
    /\ filter_pattern = << "a", "B" >>
    /\ root_path = DirR
    /\ DirD \in accepted
    /\ DirE \o << << "a", "B" >> >> \in accepted
    /\ ~hasAcceptedChildrenShallow(source_items, DirD, lower(filter_pattern))

\* the Back button is enabled exactly when there is a history
C28_Invariant == back_btn <=> history # << >>

\* what one handler does to the history and the current directory
C28_Step ==
    /\ nav_op' = "change_destination" =>
          /\ history' = Append(history, current_directory)
          /\ Len(history') = Len(history) + 1
    /\ nav_op' = "go_back" =>
          /\ history # << >>
          /\ current_directory' = history[Len(history)]
          /\ history' = SubSeq(history, 1, Len(history) - 1)
    /\ nav_op' = "go_back_empty" =>
          /\ history = << >>
          /\ UNCHANGED << current_directory, history, back_btn, root_path, source_items >>
    /\ nav_op' \notin {"change_destination", "go_back"} =>
          UNCHANGED << current_directory, history >>

\* C28: after any sequence of change_destination and go_back the Back button
\* is enabled exactly when the history is not empty; go_back makes current
\* the directory that was current before the latest change_destination not
\* yet undone; go_back with an empty history changes nothing.
C28_NavigationHistory == []C28_Invariant /\ [][C28_Step]_vars

\* two directories were entered one after the other and go_back was used
\* once: the first of them is current again and Back is still enabled
C28_Witness ==
    /\ nav_op = "go_back"
    /\ current_directory = DirD
    /\ history = << main_dir >>
    /\ back_btn

\* ------------------------------------------ InvoiceManager.process_invoice

\* the renamed names name_1 .. name_k that can be taken before the call
MaxTaken == 2

\* source_pdf=None
NoPath == Path("", << >>)

\* os.path.join(self.base_directory, data["company_name"], date_str), for
\* the company names of the model and the day of the call
InvoiceDir(company_name) ==
    IF company_name = "Acme" THEN "base/Acme/today" ELSE "base/today"

\* a directory as an entry of the disk
Directory(folder) == [path |-> Path(folder, << >>), content |-> "dir"]

\* f"{data['invoice_number']}-{data['amount']}.pdf" or f"{data['invoice_number']}.pdf"
InvoiceFilename(data) ==
    IF data.include_amount /\ data.amount # << >>
        THEN data.invoice_number \o << "-" >> \o data.amount \o << ".", "p", "d", "f" >>
    ELSE data.invoice_number \o << ".", "p", "d", "f" >>

\* the arguments data of the calls
InvoiceData ==
    [company_name : {"", "Acme"}, invoice_number : {<< >>, << "7" >>},
     amount : {<< >>, << "5" >>}, include_amount : BOOLEAN]

PlainName == << "7", ".", "p", "d", "f" >>
AmountName == << "7", "-", "5", ".", "p", "d", "f" >>

\* the files the invoice directory can hold before the call
TakenNames ==
    SUBSET ({Path(InvoiceDir("Acme"), PlainName)}
            \cup {Renamed(InvoiceDir("Acme"), PlainName, k) : k \in 1..MaxTaken})

\* the source PDFs of the calls: none, a dropped file, a file deleted since
\* it was dropped, a file that already is where the invoice goes
InvoiceSources ==
    {NoPath, Path("S", << "i", "n" >>), Path("S", << "g", "o" >>),
     Path(InvoiceDir("Acme"), PlainName)}

\* the rest of the program when process_invoice runs
InvOthersIdle ==
    /\ regex_special_chars = RawSpecialChars
    /\ ConvIdle
    /\ NoFrames
    /\ CliIdle
    /\ ExIdle
    /\ GstIdle
    /\ RxIdle
    /\ DirIdle
    /\ pdf_list = << >>
    /\ settings_conflict_mode = "Prompt"
    /\ workers = << >>
    /\ copy_log = << >>

InvUnchanged ==
    UNCHANGED << baseVars, gstVars, rxVars, dirVars, pdf_list,
                 settings_conflict_mode, workers, copy_log >>

\* process_invoice is called with any data and source on any disk
InvInit ==
    /\ InvOthersIdle
    /\ inv_pc = "called"
    /\ inv_data \in InvoiceData
    /\ source_pdf \in InvoiceSources
    /\ dest_pdf = NoPath
    /\ inv_result = << >>
    /\ \E taken \in TakenNames : \E amount_taken \in BOOLEAN : \E made \in BOOLEAN :
          disk = {[path |-> Path("S", << "i", "n" >>), content |-> "S/in"]}
                 \cup {[path |-> f, content |-> "old"] : f \in taken}
                 \cup (IF amount_taken
                          THEN {[path |-> Path(InvoiceDir("Acme"), AmountName),
                                 content |-> "old"]}
                       ELSE {})
                 \cup (IF made \/ taken # {} \/ amount_taken
                          THEN {Directory(InvoiceDir("Acme"))} ELSE {})
    /\ disk_before = disk

\* shutil.move(source, dest_file): the file is at dest_file and no longer at
\* source
Moved(d, source, dest_file) ==
    Written({e \in d : e.path # source}, dest_file, Content(d, source))

\* return False, "Missing required invoice data."
ReturnMissingData ==
    /\ inv_pc = "called"
    /\ inv_data.company_name = "" \/ inv_data.invoice_number = << >>
    /\ inv_pc' = "returned"
    /\ inv_result' = << FALSE, "missing" >>
    /\ UNCHANGED << inv_data, source_pdf, dest_pdf, disk, disk_before >>
    /\ InvUnchanged

\* create_directory failed: return False, err
ReturnMkdirFailed ==
    /\ inv_pc = "called"
    /\ inv_data.company_name # "" /\ inv_data.invoice_number # << >>
    /\ ~Exists(disk, Directory(InvoiceDir(inv_data.company_name)).path)
    /\ inv_pc' = "returned"
    /\ inv_result' = << FALSE, "mkdir" >>
    /\ UNCHANGED << inv_data, source_pdf, dest_pdf, disk, disk_before >>
    /\ InvUnchanged

\* os.makedirs(path, exist_ok=True)
makedirs(d, folder) == d \cup {Directory(folder)}

\* the directory is made and the function is at the line after it
MakeDirectory ==
    /\ inv_pc = "called"
    /\ inv_data.company_name # "" /\ inv_data.invoice_number # << >>
    /\ disk' = makedirs(disk, InvoiceDir(inv_data.company_name))
    /\ inv_pc' = "made"
    /\ UNCHANGED << inv_data, source_pdf, dest_pdf, inv_result, disk_before >>
    /\ InvUnchanged

\* no source_pdf: return True, invoice_dir
ReturnNoSource ==
    /\ inv_pc = "made"
    /\ source_pdf = NoPath
    /\ inv_pc' = "returned"
    /\ inv_result' = << TRUE, InvoiceDir(inv_data.company_name) >>
    /\ UNCHANGED << inv_data, source_pdf, dest_pdf, disk, disk_before >>
    /\ InvUnchanged

\* return False, f"Source PDF does not exist: {source_pdf}"
ReturnSourceMissing ==
    /\ inv_pc = "made"
    /\ source_pdf # NoPath
    /\ ~Exists(disk, source_pdf)
    /\ inv_pc' = "returned"
    /\ inv_result' = << FALSE, "no source" >>
    /\ UNCHANGED << inv_data, source_pdf, dest_pdf, disk, disk_before >>
    /\ InvUnchanged

\* the destination is computed and looked up: the question is asked when it
\* exists, the file is about to be moved when it does not
ComputeDestination ==
    /\ inv_pc = "made"
    /\ source_pdf # NoPath
    /\ Exists(disk, source_pdf)
    /\ dest_pdf' = Path(InvoiceDir(inv_data.company_name), InvoiceFilename(inv_data))
    /\ inv_pc' = IF Exists(disk, dest_pdf') THEN "question" ELSE "move"
    /\ UNCHANGED << inv_data, source_pdf, inv_result, disk, disk_before >>
    /\ InvUnchanged

\* the user answers Yes: dest_pdf = auto_rename(invoice_dir, filename)
RenameYes ==
    /\ inv_pc = "question"
    /\ dest_pdf' = auto_rename(disk, InvoiceDir(inv_data.company_name),
                               InvoiceFilename(inv_data))
    /\ inv_pc' = "move"
    /\ UNCHANGED << inv_data, source_pdf, inv_result, disk, disk_before >>
    /\ InvUnchanged

\* the user answers No: return False, "Operation cancelled: File already exists."
RenameNo ==
    /\ inv_pc = "question"
    /\ inv_pc' = "returned"
    /\ inv_result' = << FALSE, "cancelled" >>
    /\ UNCHANGED << inv_data, source_pdf, dest_pdf, disk, disk_before >>
    /\ InvUnchanged

\* move_file succeeded: return True, invoice_dir
MoveFile ==
    /\ inv_pc = "move"
    /\ disk' = Moved(disk, source_pdf, dest_pdf)
    /\ inv_pc' = "returned"
    /\ inv_result' = << TRUE, InvoiceDir(inv_data.company_name) >>
    /\ UNCHANGED << inv_data, source_pdf, dest_pdf, disk_before >>
    /\ InvUnchanged

\* move_file caught an exception of shutil.move: return False, err
MoveFileFailed ==
    /\ inv_pc = "move"
    /\ inv_pc' = "returned"
    /\ inv_result' = << FALSE, "move" >>
    /\ UNCHANGED << inv_data, source_pdf, dest_pdf, disk, disk_before >>
    /\ InvUnchanged

InvNext ==
    \/ ReturnMissingData
    \/ ReturnMkdirFailed
    \/ MakeDirectory
    \/ ReturnNoSource
    \/ ReturnSourceMissing
    \/ ComputeDestination
    \/ RenameYes
    \/ RenameNo
    \/ MoveFile
    \/ MoveFileFailed

InvoiceSpec == InvInit /\ [][InvNext]_vars

\* the files, directories apart
Files(d) == {e \in d : e.content # "dir"}

\* every file that was on the disk and is not the source is as it was
OthersKept == \A e \in Files(disk_before) : e.path # source_pdf => e \in disk

\* the source is where and what it was
SourceKept == \A e \in disk_before : e.path = source_pdf => e \in disk

\* the call moved the source to dest_pdf
SourceMoved ==
    /\ Exists(disk_before, source_pdf)
    /\ source_pdf # dest_pdf
    /\ ~Exists(disk, source_pdf)
    /\ Exists(disk, dest_pdf)
    /\ Content(disk, dest_pdf) = Content(disk_before, source_pdf)

\* the destination the function computes from the data
Computed == Path(InvoiceDir(inv_data.company_name), InvoiceFilename(inv_data))

\* dest_pdf is the computed path or one of its renamed forms
ComputedOrRenamed ==
    \/ dest_pdf = Computed
    \/ \E k \in 1..(MaxTaken + 2) :
          dest_pdf = Renamed(Computed.folder, Computed.filename, k)

\* the source went to a path that was free, and the call reports success
MovedToFreePath ==
    /\ SourceMoved
    /\ ~Exists(disk_before, dest_pdf)
    /\ ComputedOrRenamed
    /\ inv_result # << >>
    /\ inv_result[1]

C29_Invariant ==
    /\ OthersKept
    /\ (Files(disk) \subseteq Files(disk_before)) \/ MovedToFreePath
    /\ inv_pc = "returned" =>
          /\ ~inv_result[1] => SourceKept /\ Files(disk) = Files(disk_before)
          /\ (inv_data.company_name = "" \/ inv_data.invoice_number = << >>) =>
                 ~inv_result[1] /\ disk = disk_before
          /\ (source_pdf # NoPath /\ ~Exists(disk_before, source_pdf)) => ~inv_result[1]
          /\ inv_result[2] = "cancelled" => ~inv_result[1]

\* the destination is changed only to a path that does not exist
C29_Step ==
    dest_pdf' # dest_pdf =>
        dest_pdf' = Computed \/ (inv_pc = "question" /\ ~Exists(disk, dest_pdf'))

\* C29: process_invoice never overwrites an existing file and leaves the
\* source in place on failure: the source is moved only to a path that did not
\* exist when checked, the computed one or the auto_rename one after a Yes;
\* with missing data, a missing source or a No it returns False and moves
\* nothing; with missing data it creates no directory.
C29_NoOverwrite == []C29_Invariant /\ [][C29_Step]_vars

\* the computed name and name_1 were taken, the user agreed, and the source
\* was moved to name_2 with both older files left as they were
C29_Witness ==
    /\ inv_pc = "returned"
    /\ inv_result[1]
    /\ source_pdf = Path("S", << "i", "n" >>)
    /\ dest_pdf = Renamed(InvoiceDir("Acme"), PlainName, 2)
    /\ SourceMoved
    /\ Exists(disk, Computed) /\ Content(disk, Computed) = "old"

\* ------------------------------- extract_from_pdf: the GST-to-company fallback

\* the step after the loops, in which the mapping is looked up
LooksUp == ex_pc = "loop" /\ ex_pc' = "done"

\* the company name is taken from the mapping in this step
TakesMappedName ==
    /\ Value(ex_result, "company_name") = << >>
    /\ Value(ex_result, "gst_number") # << >>
    /\ Value(ex_result, "gst_number") \in DOMAIN gst_company_mappings
    /\ Value(ex_result', "company_name") =
           gst_company_mappings[Value(ex_result, "gst_number")]

C30_Step ==
    LooksUp =>
        /\ (TakesMappedName
               \/ Value(ex_result', "company_name") = Value(ex_result, "company_name"))
        /\ Value(ex_result, "company_name") # << >> =>
              Value(ex_result', "company_name") = Value(ex_result, "company_name")
        /\ Value(ex_result', "gst_number") = Value(ex_result, "gst_number")
        /\ Value(ex_result', "invoice_number") = Value(ex_result, "invoice_number")
        /\ Value(ex_result', "amount") = RemoveCommas(Value(ex_result, "amount"))

\* C30: the company name is taken from gst_company_mappings only when the
\* patterns left company_name empty and the extracted gst_number is a key of
\* the mapping; a company name produced by a pattern is never replaced, and
\* the lookup changes neither gst_number nor invoice_number nor amount.
C30_FallbackFrame == [][C30_Step]_vars

\* extraction is over with a GST number that is a key of the mapping and a
\* company name that a pattern produced: the pattern's name was kept
C30_Witness ==
    /\ Extracted
    /\ ex_result["gst_number"] = << "A" >>
    /\ ex_result["gst_number"] \in DOMAIN gst_company_mappings
    /\ ex_result["company_name"] # << >>
    /\ ex_result["company_name"] # gst_company_mappings[ex_result["gst_number"]]

====
